---- MODULE Spec2Model ----
(***************************************************************************)
(* A model of the event-deduplication store (shared/dedupe.py), of the     *)
(* signal-detection stage that gates emission on it                        *)
(* (signal_detect/__main__.py), of the fingerprint canonicalisation        *)
(* (make_hash) and of the fusion scoring (signal_detect/signal_fusion.py). *)
(*                                                                         *)
(* Time is counted in whole days: a clock reading is a natural number, a   *)
(* timedelta(days=n) is n, and the UTC date of a reading is the reading.   *)
(***************************************************************************)
EXTENDS Integers, Sequences, FiniteSets, TLC

VARIABLES
    now,      \* the wall clock, datetime.now(timezone.utc), in days
    file,     \* the lines of the state file (SeenStore.state_path)
    tmp,      \* the temporary file of compact(): [exists, lines]
    stores,   \* the SeenStore instances: id -> [alive, ttl, active, pc, cnow, widx]
    last,     \* the operation that produced this state: [op, s, h]
    track,    \* history: fingerprint -> first_seen_utc of its first record() of the
              \* current run of record()/reconstruction steps inside the TTL window
    fresh,    \* history: fingerprint -> [fs, kept]: first_seen_utc of the line its
              \* latest record() appended, and whether compact() has left the state
              \* file alone since
    events,   \* the pair of events handed to make_hash
    hashes,   \* the calls of make_hash made so far: [pc, r1, r2]
    inputs,   \* the normalized files the stage reads: a sequence of files, each a
              \* sequence of lines
    outs,     \* the signal files the stage has written, one per input file
    run,      \* the stage process: [n, pc, f, i, ttl, dedupe]
    hist,     \* history: what every run of the stage did with every input line
    window,   \* the signals handed to fuse_window
    fused,    \* what fuse_window returned
    signals,  \* the arguments of fuse_signals: [list, window_hours]
    sweep,    \* the call of fuse_signals: its position, its locals and its result
    queue,    \* the *.norm.jsonl files of the queue directory, each a sequence of lines
    harden,   \* the timestamp-hardening process: [n, pc, f, i, tmp] and its history
    stamp,    \* the arguments of parse_to_utc: [s, naive_tz]
    parsed    \* what parse_to_utc and to_iso_utc returned: [pc, dt, iso]

storeVars == <<file, tmp, stores, track, fresh>>

hashVars == <<events, hashes>>

stageVars == <<inputs, outs, run, hist>>

fusionVars == <<window, fused>>

sweepVars == <<signals, sweep>>

hardenVars == <<queue, harden>>

parseVars == <<stamp, parsed>>

vars == <<now, last, storeVars, hashVars, stageVars, fusionVars, sweepVars, hardenVars, parseVars>>

-----------------------------------------------------------------------------
(* Bounds of the model *)

MaxTime == 4        \* the clock stops advancing here
InitNow == 1        \* the clock at the start (lines dated 0 are in the past)
MaxInitLines == 1   \* lines the state file may already hold at the start
MaxFileLen == 3     \* record() is not called on a file this long

-----------------------------------------------------------------------------
(* Values *)

None == -1          \* Python's None where a day number is expected

\* sha256(key_str).hexdigest(): a collision-free digest, kept as its preimage.
Sha256(key_str) == [sha256 |-> key_str]

\* No fingerprint: the "hash" key of a JSON line missing or empty.
NoHash == [sha256 |-> <<"">>]

FPs == {Sha256(<<"k1">>), Sha256(<<"k2">>)}     \* the fingerprints recorded under Spec
FP1 == Sha256(<<"k1">>)
FP2 == Sha256(<<"k2">>)
StoreIds == {1, 2}
Writers == {1}              \* the single writer of the documented discipline
TtlChoices == {0, 1, 2}     \* ttl_days given to the constructor

\* A timestamp string of a JSON line.
NoTs == [kind |-> "absent", t |-> 0]      \* key missing or null
BadTs == [kind |-> "garbage", t |-> 0]    \* a string no format parses

\* datetime.isoformat() of an aware UTC datetime.
IsoFormat(t) == [kind |-> "iso", t |-> t]

\* _parse_datetime_utc: the UTC instant, or None.
ParseDatetimeUtc(s) == IF s.kind = "iso" THEN s.t ELSE None

\* The key dict make_hash returns beside the fingerprint.
KeyOf(h) == h

\* A line that json.loads rejects.
GarbageLine == [json |-> FALSE, hash |-> NoHash, fs |-> NoTs, ls |-> NoTs, key |-> NoHash]

JsonLine(h, fs, ls, key) == [json |-> TRUE, hash |-> h, fs |-> fs, ls |-> ls, key |-> key]

NoTmp == [exists |-> FALSE, lines |-> <<>>]

DeadStore == [alive |-> FALSE, ttl |-> 0, active |-> <<>>, pc |-> "idle",
              cnow |-> 0, widx |-> 0]

-----------------------------------------------------------------------------
(* SeenStore: the in-memory active set is a dict, kept here as the sequence *)
(* of its values in insertion order.                                        *)

SeenRecord(h, fs, ls, key) == [hash |-> h, first_seen_utc |-> fs, last_seen_utc |-> ls, key |-> key]

ActiveIndex(active, h) ==
    IF \E i \in DOMAIN active : active[i].hash = h
    THEN CHOOSE i \in DOMAIN active : active[i].hash = h
    ELSE 0

\* self._active[h] = rec
ActivePut(active, rec) ==
    LET i == ActiveIndex(active, rec.hash)
    IN IF i = 0 THEN Append(active, rec) ELSE [active EXCEPT ![i] = rec]

\* The entry test of _load_active: NOW - first_seen < TTL.
IsActiveAlways(now_, first_seen, ttl) == TRUE
IsActive(now_, first_seen, ttl) == now_ - first_seen < ttl

\* One line of _load_active's loop.
LoadLineUndated(active, line, ttl, now_) ==
    IF ~line.json \/ line.hash = NoHash THEN active
    ELSE IF IsActive(now_, IF ParseDatetimeUtc(line.fs) = None THEN now_ ELSE ParseDatetimeUtc(line.fs), ttl)
    THEN ActivePut(active, SeenRecord(line.hash, now_, now_, line.key))
    ELSE active
LoadLine(active, line, ttl, now_) ==
    IF ~line.json THEN active
    ELSE LET h == line.hash
             fs == line.fs
             ls == IF line.ls.kind = "absent" THEN fs ELSE line.ls
         IN IF h = NoHash \/ fs.kind = "absent" THEN active
            ELSE LET p1 == ParseDatetimeUtc(fs)
                     first_seen == IF p1 = None THEN now_ ELSE p1
                     p2 == ParseDatetimeUtc(ls)
                     last_seen == IF p2 = None THEN first_seen ELSE p2
                 IN IF IsActive(now_, first_seen, ttl)
                    THEN ActivePut(active, SeenRecord(h, first_seen, last_seen, line.key))
                    ELSE active

RECURSIVE LoadFrom(_, _, _, _)
LoadFrom(lines, active, ttl, now_) ==
    IF lines = <<>> THEN active
    ELSE LoadFrom(Tail(lines), LoadLine(active, Head(lines), ttl, now_), ttl, now_)

\* SeenStore._load_active on a fresh instance.
LoadActiveNothing(lines, ttl, now_) == <<>>
LoadActive(lines, ttl, now_) == LoadFrom(lines, <<>>, ttl, now_)

\* SeenStore.seen
SeenInNever(active, h) == FALSE
SeenIn(active, h) == ActiveIndex(active, h) # 0
Seen(s, h) == SeenIn(stores[s].active, h)

\* The in-memory half of SeenStore.record.
RecordUpsertResetsFirstSeen(active, h, key, now_dt) ==
    ActivePut(active, SeenRecord(h, now_dt, now_dt, key))
RecordUpsert(active, h, key, now_dt) ==
    LET i == ActiveIndex(active, h)
    IN IF i = 0
       THEN Append(active, SeenRecord(h, now_dt, now_dt, key))
       ELSE [active EXCEPT ![i].last_seen_utc = now_dt]

\* The payload record() appends.
RecordPayload(active, h, key) ==
    LET rec == active[ActiveIndex(active, h)]
    IN JsonLine(h, IsoFormat(rec.first_seen_utc), IsoFormat(rec.last_seen_utc), key)

\* The state file after record()'s append.
RecordAppendOnlyNew(lines, active, newActive, h, key) ==
    IF SeenIn(active, h) THEN lines ELSE Append(lines, RecordPayload(newActive, h, key))
RecordAppend(lines, active, newActive, h, key) ==
    Append(lines, RecordPayload(newActive, h, key))

\* The retention test of compact().
CompactKeepAll(now_, rec, ttl) == TRUE
CompactKeep(now_, rec, ttl) == now_ - rec.first_seen_utc < ttl

CompactLine(rec) ==
    JsonLine(rec.hash, IsoFormat(rec.first_seen_utc), IsoFormat(rec.last_seen_utc), rec.key)

\* What compact() writes for the records active[from..], in dict order.
RECURSIVE CompactLines(_, _, _, _)
CompactLines(active, from, now_, ttl) ==
    IF from > Len(active) THEN <<>>
    ELSE (IF CompactKeep(now_, active[from], ttl) THEN <<CompactLine(active[from])>> ELSE <<>>)
         \o CompactLines(active, from + 1, now_, ttl)

-----------------------------------------------------------------------------
(* Canonicalisation and make_hash.  A text is a sequence of characters; a   *)
(* URL is a sequence of tokens, each a delimiter, a percent-escape or a run  *)
(* of characters that holds neither.  <<>> is the empty string (and None:    *)
(* the code tests both with "not s").                                        *)

MapSeq(F(_), s) == [i \in DOMAIN s |-> F(s[i])]

\* The sequences over S of length at most n.
RECURSIVE SeqsUpTo(_, _)
SeqsUpTo(S, n) ==
    IF n = 0 THEN {<<>>}
    ELSE LET shorter == SeqsUpTo(S, n - 1)
         IN shorter \cup {Append(q, x) : q \in shorter, x \in S}

\* The index of the first element of s that is in S, or 0.
FirstIndex(s, S) ==
    IF \E i \in DOMAIN s : s[i] \in S
    THEN CHOOSE i \in DOMAIN s : s[i] \in S /\ \A j \in 1..(i - 1) : s[j] \notin S
    ELSE 0

Before(s, i) == SubSeq(s, 1, i - 1)
After(s, i) == SubSeq(s, i + 1, Len(s))

\* a or b
Or(a, b) == IF a # <<>> THEN a ELSE b

\* unicodedata.normalize("NFKC", s), per character: a fullwidth letter becomes
\* the ASCII letter.
Nfkc(c) == CASE c = "FW_A" -> "A" [] c = "FW_a" -> "a" [] OTHER -> c

IsSpace(c) == c \in {" ", "\t"}

\* re.sub(r"\s+", " ", s)
RECURSIVE CollapseWs(_)
CollapseWs(s) ==
    IF s = <<>> THEN <<>>
    ELSE IF IsSpace(Head(s))
         THEN IF Len(s) > 1 /\ IsSpace(s[2])
              THEN CollapseWs(Tail(s))
              ELSE <<" ">> \o CollapseWs(Tail(s))
         ELSE <<Head(s)>> \o CollapseWs(Tail(s))

\* str.strip()
RECURSIVE Strip(_)
Strip(s) ==
    IF s = <<>> THEN <<>>
    ELSE IF IsSpace(Head(s)) THEN Strip(Tail(s))
    ELSE IF IsSpace(s[Len(s)]) THEN Strip(SubSeq(s, 1, Len(s) - 1))
    ELSE s

\* str.casefold() and str.lower(), per character or token.
Lower(c) ==
    CASE c = "A" -> "a" [] c = "B" -> "b" [] c = "I" -> "i"
      [] c = "HTTPS" -> "https" [] c = "WWW" -> "www" [] c = "X" -> "x"
      [] c = "UTM_S" -> "utm_s" [] c = "REF" -> "ref" [] c = "U" -> "u"
      [] OTHER -> c

\* _casefold_trim
CasefoldTrim(s) ==
    IF s = <<>> THEN <<>> ELSE MapSeq(Lower, Strip(CollapseWs(MapSeq(Nfkc, s))))

\* urllib.parse.unquote, per token.
Unquote(c) == CASE c = "%23" -> "#" [] c = "%26" -> "&" [] c = "%3D" -> "=" [] OTHER -> c

\* urllib.parse.quote_plus, per token of a query name or value.
QuotePlus(c) ==
    CASE c = "=" -> "%3D" [] c = "?" -> "%3F" [] c = "/" -> "%2F" [] c = "@" -> "%40"
      [] c = "://" -> "%3A%2F%2F" [] c = "#" -> "%23" [] c = "&" -> "%26" [] OTHER -> c

SchemeWords == {"https", "HTTPS"}

\* urlsplit: [scheme, netloc, path, query, fragment].
UrlSplit(u) ==
    LET hasScheme == Len(u) >= 2 /\ u[1] \in SchemeWords /\ u[2] = "://"
        rest == IF hasScheme THEN SubSeq(u, 3, Len(u)) ELSE u
        n == FirstIndex(rest, {"/", "?", "#"})
        netloc == IF ~hasScheme THEN <<>> ELSE IF n = 0 THEN rest ELSE Before(rest, n)
        tail == IF ~hasScheme THEN rest ELSE IF n = 0 THEN <<>> ELSE SubSeq(rest, n, Len(rest))
        f == FirstIndex(tail, {"#"})
        fragment == IF f = 0 THEN <<>> ELSE After(tail, f)
        nofrag == IF f = 0 THEN tail ELSE Before(tail, f)
        q == FirstIndex(nofrag, {"?"})
    IN [scheme |-> IF hasScheme THEN <<Lower(u[1])>> ELSE <<>>,
        netloc |-> netloc,
        path |-> IF q = 0 THEN nofrag ELSE Before(nofrag, q),
        query |-> IF q = 0 THEN <<>> ELSE After(nofrag, q),
        fragment |-> fragment]

\* parse_qsl(query, keep_blank_values=True): the (name, value) pairs.
RECURSIVE ParseQsl(_)
ParseQsl(query) ==
    IF query = <<>> THEN <<>>
    ELSE LET a == FirstIndex(query, {"&"})
             field == IF a = 0 THEN query ELSE Before(query, a)
             more == IF a = 0 THEN <<>> ELSE After(query, a)
             e == FirstIndex(field, {"="})
             pair == IF e = 0 THEN <<field, <<>>>> ELSE <<Before(field, e), After(field, e)>>
         IN (IF field = <<>> THEN <<>> ELSE <<pair>>) \o ParseQsl(more)

\* _TRACKING_PARAMS
TrackingParams == {"gclid", "fbclid", "igshid", "ref", "ref_src"}

\* The names that start with utm_ among the tokens of the model.
UtmWords == {"utm_s"}

\* k_low.startswith("utm_") or k_low in _TRACKING_PARAMS
IsTracker(k) ==
    LET k_low == MapSeq(Lower, k)
    IN k_low # <<>> /\ (k_low[1] \in UtmWords \/ (Len(k_low) = 1 /\ k_low[1] \in TrackingParams))

RECURSIVE DropTrackers(_)
DropTrackers(pairs) ==
    IF pairs = <<>> THEN <<>>
    ELSE (IF IsTracker(Head(pairs)[1]) THEN <<>> ELSE <<Head(pairs)>>)
         \o DropTrackers(Tail(pairs))

\* urlencode(query_pairs, doseq=True)
RECURSIVE UrlEncode(_)
UrlEncode(pairs) ==
    IF pairs = <<>> THEN <<>>
    ELSE MapSeq(QuotePlus, Head(pairs)[1]) \o <<"=">> \o MapSeq(QuotePlus, Head(pairs)[2])
         \o (IF Len(pairs) > 1 THEN <<"&">> \o UrlEncode(Tail(pairs)) ELSE <<>>)

\* urlunsplit((scheme, netloc, path, query, ""))
UrlUnsplit(scheme, netloc, path, query) ==
    LET rooted == IF netloc # <<>> /\ path # <<>> /\ path[1] # "/" THEN <<"/">> \o path ELSE path
        url == IF scheme # <<>> THEN scheme \o <<"://">> \o netloc \o rooted ELSE rooted
    IN IF query # <<>> THEN url \o <<"?">> \o query ELSE url

\* The netloc without its leading www.
StripWww(netloc) ==
    IF Len(netloc) >= 2 /\ netloc[1] = "www" /\ netloc[2] = "." THEN SubSeq(netloc, 3, Len(netloc))
    ELSE netloc

\* _normalize_url
NormalizeUrl(url) ==
    IF url = <<>> THEN <<>>
    ELSE LET parts == UrlSplit(MapSeq(Unquote, url))
             scheme == MapSeq(Lower, parts.scheme)
             netloc == StripWww(MapSeq(Lower, parts.netloc))
             query == UrlEncode(DropTrackers(ParseQsl(parts.query)))
             path == IF parts.path = <<"/">> THEN <<>> ELSE parts.path
         IN UrlUnsplit(scheme, netloc, path, query)

\* A timestamp field of an event is a timestamp string: NoTs, BadTs or IsoFormat(t).
Truthy(ts) == ts.kind # "absent"

\* _pick_event_date
PickEventDateAnyField(event, now_) ==
    IF ParseDatetimeUtc(event.event_datetime_utc) # None
    THEN ParseDatetimeUtc(event.event_datetime_utc)
    ELSE IF ParseDatetimeUtc(event.filing_datetime) # None
    THEN ParseDatetimeUtc(event.filing_datetime)
    ELSE IF ParseDatetimeUtc(event.pubDate) # None THEN ParseDatetimeUtc(event.pubDate)
    ELSE now_
PickEventDate(event, now_) ==
    LET raw == IF Truthy(event.event_datetime_utc) THEN event.event_datetime_utc
               ELSE IF Truthy(event.filing_datetime) THEN event.filing_datetime
               ELSE event.pubDate
    IN IF Truthy(raw) /\ ParseDatetimeUtc(raw) # None THEN ParseDatetimeUtc(raw) ELSE now_

\* dt.date().isoformat()
DateNames == <<"D0", "D1", "D2", "D3", "D4", "D5", "D6", "D7", "D8", "D9", "D10",
               "D11", "D12", "D13", "D14", "D15", "D16", "D17", "D18", "D19", "D20",
               "D21", "D22", "D23", "D24">>
DateStr(dt) == DateNames[dt + 1]

\* The first URL of an event: first_url, else urls[0], else url.
FirstUrlListLast(event) ==
    Or(event.first_url, Or(event.url, IF event.urls # <<>> THEN event.urls[1] ELSE <<>>))
FirstUrl(event) ==
    Or(event.first_url, Or(IF event.urls # <<>> THEN event.urls[1] ELSE <<>>, event.url))

\* make_hash: [hash, key].
MakeHash(event, now_) ==
    LET source == CasefoldTrim(Or(event.source, event.source_name))
        title == CasefoldTrim(Or(event.title, event.headline))
        url_norm == NormalizeUrl(FirstUrl(event))
        date_str == DateStr(PickEventDate(event, now_))
        key_str == source \o <<"|">> \o title \o <<"|">> \o url_norm \o <<"|", date_str>>
    IN [hash |-> Sha256(key_str),
        key |-> [source |-> source, title |-> title, url |-> url_norm, date |-> date_str]]

\* What make_hash has not returned yet.
NoResult ==
    [hash |-> NoHash, key |-> [source |-> <<>>, title |-> <<>>, url |-> <<>>, date |-> ""]]

\* An event dict; <<>> and NoTs stand for a missing key.
Event(source, source_name, title, first_url, urls, url, dates) ==
    [source |-> source, source_name |-> source_name, title |-> title, headline |-> <<>>,
     first_url |-> first_url, urls |-> urls, url |-> url,
     event_datetime_utc |-> dates[1], filing_datetime |-> dates[2], pubDate |-> dates[3]]

\* The texts a source or a title is drawn from.
Texts ==
    {<<>>, <<" ">>, <<"a">>, <<"A">>, <<" ", "a", "\t">>, <<"a", "b">>,
     <<"a", " ", "b">>, <<"A", " ", "\t", "B">>, <<"FW_A">>, <<"i">>, <<"I">>,
     <<"DOTLESS_i">>}

\* The parts a URL is put together from.
Schemes == {<<>>, <<"https", "://">>, <<"HTTPS", "://">>}
Users == {<<>>, <<"u", "@">>}
Wwws == {<<>>, <<"www", ".">>, <<"WWW", ".">>, <<"www", ".", "www", ".">>}
Hosts == {<<"x", ".", "com">>, <<"X", ".", "com">>}
Paths == {<<"/">>, <<"/", "a">>}
Queries ==
    {<<>>,
     <<"?", "id", "=", "1">>,
     <<"?", "utm_s", "=", "1">>,
     <<"?", "ref", "=", "1">>,
     <<"?", "id", "=", "1", "&", "UTM_S", "=", "1">>,
     <<"?", "gclid", "=", "1", "&", "id", "=", "1">>,
     <<"?", "utm_s", "=", "1", "%23", "&", "id", "=", "1">>,
     <<"?", "utm_s", "=", "1", "%26", "id", "%3D", "1">>}
Fragments == {<<>>, <<"#", "f">>}

\* The URLs of the first event of a pair.
UrlParts ==
    [scheme : Schemes \ {<<>>}, user : Users, www : Wwws, host : {<<"x", ".", "com">>},
     path : {<<"/", "a">>}, query : Queries, fragment : {<<>>}]

UrlOf(c) == c.scheme \o c.user \o c.www \o c.host \o c.path \o c.query \o c.fragment

\* The date fields an event is drawn with: none, a parseable event time, an
\* unparseable event time before a parseable filing time, a parseable pubDate.
DateChoices ==
    {<<NoTs, NoTs, NoTs>>, <<IsoFormat(0), NoTs, NoTs>>,
     <<BadTs, IsoFormat(0), NoTs>>, <<NoTs, NoTs, IsoFormat(2)>>}

FixedUrl == <<"https", "://", "x", ".", "com", "/", "a">>
OtherUrl == <<"https", "://", "x", ".", "com", "/", "b">>

\* Pairs of events whose source or title differ, with the URL in first_url.
TextPairs ==
    {<<Event(t1, sn, <<"a">>, FixedUrl, <<>>, OtherUrl, d),
       Event(t2, sn, <<"a">>, FixedUrl, <<>>, OtherUrl, d)>> :
        t1 \in Texts, t2 \in Texts, sn \in {<<>>, <<"b">>}, d \in DateChoices}
    \cup
    {<<Event(<<"a">>, <<>>, t1, FixedUrl, <<>>, OtherUrl, d),
       Event(<<"a">>, <<>>, t2, FixedUrl, <<>>, OtherUrl, d)>> :
        t1 \in Texts, t2 \in Texts, d \in DateChoices}

\* The URLs that differ from UrlOf(c) in at most one part.
OnePartAway(c) ==
    {UrlOf([c EXCEPT !.scheme = x]) : x \in Schemes}
    \cup {UrlOf([c EXCEPT !.user = x]) : x \in Users}
    \cup {UrlOf([c EXCEPT !.www = x]) : x \in Wwws}
    \cup {UrlOf([c EXCEPT !.host = x]) : x \in Hosts}
    \cup {UrlOf([c EXCEPT !.path = x]) : x \in Paths}
    \cup {UrlOf([c EXCEPT !.query = x]) : x \in Queries}
    \cup {UrlOf([c EXCEPT !.fragment = x]) : x \in Fragments}

\* Pairs of events whose URLs differ, the first in urls[0], the second in url.
UrlPairs ==
    UNION {{<<Event(<<"a">>, <<>>, <<"a">>, <<>>, <<UrlOf(c), OtherUrl>>, <<>>, d),
              Event(<<"a">>, <<>>, <<"a">>, <<>>, <<>>, u2, d)>> :
               u2 \in OnePartAway(c), d \in {<<NoTs, NoTs, IsoFormat(2)>>}} :
           c \in UrlParts}

\* Events with every choice of first_url, urls and url: none, an empty first
\* element, three different URLs.
TrackedUrl == <<"https", "://", "x", ".", "com", "/", "a", "?", "utm_s", "=", "1">>
ThirdUrl == <<"https", "://", "x", ".", "com", "/", "c">>

UrlFieldEvents ==
    {Event(<<"a">>, <<>>, <<"a">>, fu, us, u, <<IsoFormat(0), NoTs, NoTs>>) :
        fu \in {<<>>, TrackedUrl},
        us \in {<<>>, <<OtherUrl>>, << <<>> >>, << <<>>, OtherUrl >>, <<OtherUrl, ThirdUrl>>},
        u \in {<<>>, ThirdUrl}}

PrecedencePairs == UrlFieldEvents \X UrlFieldEvents

EventPairs == TextPairs \cup UrlPairs \cup PrecedencePairs

-----------------------------------------------------------------------------
(* The signal-detection stage: rules, score, watchlist gate.  A title or a   *)
(* body is a sequence of words and spaces.                                    *)

MaxRuns == 2          \* runs of the stage
MaxStageTicks == 1    \* days that pass one at a time while the stage is watched
StageMaxTime == 15    \* the stage clock stops advancing here

\* The TTL of SeenStore.from_env when DEDUPE_TTL_DAYS is unset (or 7).
DefaultTtlDays == 7

\* The rule tags, in the order of KEYWORDS.
Tags == <<"buyback", "dividend", "guidance_up", "guidance_down", "cfo_resign", "ceo_resign">>

\* KEYWORDS, some keys of every tag.
Keywords(tag) ==
    CASE tag = "buyback" -> {"buyback", "repurchase"}
      [] tag = "dividend" -> {"dividend"}
      [] tag = "guidance_up" -> {"raises guidance"}
      [] tag = "guidance_down" -> {"lowers guidance"}
      [] tag = "cfo_resign" -> {"cfo", "resigns"}
      [] tag = "ceo_resign" -> {"ceo", "resigns"}

\* str.lower() of a word.
LowerWord(w) ==
    CASE w = "BUYBACK" -> "buyback" [] w = "Dividend" -> "dividend" [] w = "CEO" -> "ceo"
      [] OTHER -> Lower(w)

\* str.upper() of an event kind or subtype.
UpperWord(w) ==
    CASE w = "sec" -> "SEC" [] w = "8-k" -> "8-K" [] w = "6-k" -> "6-K" [] w = "pr" -> "PR"
      [] OTHER -> w

\* " ".join(filter(None, [title, body]))
JoinText(title, body) ==
    IF title = <<>> THEN body
    ELSE IF body = <<>> THEN title
    ELSE title \o <<" ">> \o body

\* The loop of hit_tags over KEYWORDS: the tags, in order, with a keyword in t.
RECURSIVE HitsAmong(_, _)
HitsAmong(tags, t) ==
    IF tags = <<>> THEN <<>>
    ELSE (IF Keywords(Head(tags)) \cap t # {} THEN <<Head(tags)>> ELSE <<>>)
         \o HitsAmong(Tail(tags), t)

\* hit_tags
HitTags(text) ==
    IF text = <<>> THEN <<>>
    ELSE HitsAmong(Tags, {LowerWord(text[i]) : i \in DOMAIN text})

\* TAG_WEIGHTS.get(h, 1)
TagWeight(tag) ==
    CASE tag = "buyback" -> 3 [] tag = "dividend" -> 2 [] tag = "guidance_up" -> 3
      [] tag = "guidance_down" -> 2 [] tag = "cfo_resign" -> 3 [] tag = "ceo_resign" -> 4
      [] OTHER -> 1

RECURSIVE SumWeights(_)
SumWeights(hits) == IF hits = <<>> THEN 0 ELSE TagWeight(Head(hits)) + SumWeights(Tail(hits))

\* score_hits
ScoreHits(hits, event_kind, subtype) ==
    SumWeights(hits)
    + (IF UpperWord(event_kind) = "SEC" THEN 1 ELSE 0)
    + (IF UpperWord(subtype) \in {"8-K", "6-K"} THEN 1 ELSE 0)

\* _canon_ticker and _canon_cik; "" is None.
CanonTicker(tok) ==
    CASE tok \in {"T1", "t1", " t1"} -> "T1" [] tok = "T2" -> "T2" [] OTHER -> ""
CanonCik(tok) ==
    CASE tok \in {"1", "0000000001"} -> "0000000001" [] tok = "2" -> "0000000002" [] OTHER -> ""

\* An event without an issuer dict.
NoIssuer == [isdict |-> FALSE, ticker |-> "", cik |-> ""]

\* _extract_identifiers: <<ticker, cik>>.
ExtractIdentifiers(event) ==
    LET it == IF event.issuer.isdict THEN CanonTicker(event.issuer.ticker) ELSE ""
        ic == IF event.issuer.isdict THEN CanonCik(event.issuer.cik) ELSE ""
        c2 == IF event.cik # "" THEN event.cik ELSE event.cik_str
    IN <<IF it = "" THEN CanonTicker(event.ticker) ELSE it,
         IF ic = "" THEN CanonCik(c2) ELSE ic>>

\* WATCHLIST is None.
NoWatchlist == [enabled |-> FALSE, tickers |-> {}, ciks |-> {}]

\* Watchlist.allowed
Allowed(watchlist, event) ==
    LET id == ExtractIdentifiers(event)
    IN \/ id[1] # "" /\ id[1] \in watchlist.tickers
       \/ id[2] # "" /\ id[2] \in watchlist.ciks

\* A normalized event as the stage reads it.
StageEvent(title, event_kind, event_subtype, issuer, ticker, dates) ==
    [source |-> <<"a">>, source_name |-> <<>>, title |-> title, headline |-> <<>>,
     first_url |-> <<>>, urls |-> <<FixedUrl>>, url |-> <<>>,
     event_datetime_utc |-> dates[1], filing_datetime |-> dates[2], pubDate |-> dates[3],
     body |-> <<>>, event_kind |-> event_kind, event_subtype |-> event_subtype,
     issuer |-> issuer, ticker |-> ticker, cik |-> "", cik_str |-> ""]

DatedAt0 == <<IsoFormat(0), NoTs, NoTs>>
Undated == <<BadTs, IsoFormat(0), NoTs>>

\* A buyback press release of a watched ticker: score 3.
EvBuyback == StageEvent(<<"buyback">>, "PR", "PR", NoIssuer, "T1", DatedAt0)
\* The same story in other letters, of a ticker that is not watched.
EvBuybackAgain == StageEvent(<<"BUYBACK", " ">>, "PR", "PR", NoIssuer, "T2", DatedAt0)
\* A dividend in an SEC filing whose event time does not parse: score 3.
EvUndated == StageEvent(<<"Dividend">>, "sec", "10-Q", NoIssuer, "t1", Undated)
\* A dividend press release: score 2.
EvDividend == StageEvent(<<"a", " ", "dividend">>, "PR", "PR", NoIssuer, "T1", DatedAt0)
\* An 8-K that no rule matches: score 2.
EvNoHits == StageEvent(<<"a">>, "SEC", "8-k", NoIssuer, "T1", DatedAt0)
\* A resignation, the issuer known by CIK: score 4.
EvCeo ==
    StageEvent(<<"CEO">>, "PR", "PR", [isdict |-> TRUE, ticker |-> "", cik |-> "1"], "",
               <<NoTs, NoTs, IsoFormat(2)>>)

StageEvents == {EvBuyback, EvBuybackAgain, EvUndated, EvDividend, EvNoHits, EvCeo}

\* The lines of a normalized file: an event, a blank line, a line that is not JSON.
EventLine(d) == [blank |-> FALSE, json |-> TRUE, d |-> d]
BlankLine == [blank |-> TRUE, json |-> FALSE, d |-> EvNoHits]
BadLine == [blank |-> FALSE, json |-> FALSE, d |-> EvNoHits]

StageLines == {EventLine(d) : d \in StageEvents} \cup {BlankLine, BadLine}

\* The lines of the second file, when there are two.
FewLines == {EventLine(EvBuyback), EventLine(EvUndated), BadLine}

\* The input directory: one file of up to two lines, or two files of up to one.
StageFiles ==
    {<<q>> : q \in SeqsUpTo(StageLines, 2)}
    \cup {<<q1, q2>> : q1 \in SeqsUpTo(FewLines, 1), q2 \in SeqsUpTo(FewLines, 1)}

\* A watchlist file of one ticker and one CIK.
Watchlist1 == [enabled |-> TRUE, tickers |-> {"T1"}, ciks |-> {"0000000001"}]

\* --threshold and the watchlist: the defaults, a lower threshold, a watchlist.
StageArgs ==
    {[threshold |-> 3, watchlist |-> NoWatchlist],
     [threshold |-> 2, watchlist |-> NoWatchlist],
     [threshold |-> 3, watchlist |-> Watchlist1]}

StageInputs ==
    {[files |-> fs, threshold |-> a.threshold, watchlist |-> a.watchlist] :
        fs \in StageFiles, a \in StageArgs}

\* The clock when the stage is first watched.
StageInitNow == InitNow + DefaultTtlDays - 1

\* The state file earlier runs left: nothing, or the buyback story recorded long
\* enough ago to expire the next day.
StagePreStates ==
    {<<>>,
     <<JsonLine(MakeHash(EvBuyback, InitNow).hash, IsoFormat(InitNow), IsoFormat(InitNow),
                MakeHash(EvBuyback, InitNow).key)>>}

NoRun == [n |-> 0, pc |-> "idle", f |-> 0, i |-> 0, dedupe |-> FALSE]

\* The line json.dumps(sig) writes.
SignalLine(d, score, rule_hits) == [d |-> d, score |-> score, rule_hits |-> rule_hits]

-----------------------------------------------------------------------------
(* Fusion scoring.  A float is kept as an exact number: a weight in          *)
(* hundredths, a sentiment in tenths, a score as a fraction [n, d] in lowest *)
(* terms.                                                                    *)

MaxWindow == 3        \* signals in a fusion window

RECURSIVE Gcd(_, _)
Gcd(a, b) == IF b = 0 THEN a ELSE Gcd(b, a % b)

\* The fraction n / d in lowest terms, d > 0.
Frac(n, d) ==
    LET g == Gcd(IF n < 0 THEN -n ELSE n, d)
    IN [n |-> n \div g, d |-> d \div g]

\* a * n / m
FMul(a, n, m) == Frac(a.n * n, a.d * m)

\* a == b, a >= k, min(a, k) for a whole number k
FEq(a, b) == a = b
FGe(a, k) == a.n >= k * a.d
FMin(a, k) == IF FGe(a, k) THEN Frac(k, 1) ELSE a

\* round(x, 1), in tenths: the nearest tenth; when the exact value lies midway
\* between two tenths the error of the float decides, so either of them.
Round1(a) ==
    LET q == (10 * a.n) \div a.d
        r == (10 * a.n) % a.d
    IN IF 2 * r > a.d THEN {q + 1}
       ELSE IF 2 * r < a.d THEN {q}
       ELSE {q, q + 1}

Min(a, b) == IF a <= b THEN a ELSE b

\* A signal as fuse_window reads it; a field that is missing holds the default
\* of its signal.get.
Signal(signal_type, source, event_kind, sentiment, num_insiders, buzz_score, sentiment_score, score) ==
    [signal_type |-> signal_type, source |-> source, event_kind |-> event_kind,
     sentiment |-> sentiment, num_insiders |-> num_insiders, buzz_score |-> buzz_score,
     sentiment_score |-> sentiment_score, score |-> score]

InsiderCluster(sentiment, num_insiders) ==
    Signal("insider_cluster", "insider", "", sentiment, num_insiders, 0, 0, 0)
Reddit(buzz_score, sentiment_score) ==
    Signal("", "reddit", "social_sentiment", "", 0, buzz_score, sentiment_score, 0)
Filing(source, score) == Signal("", source, "SEC", "", 0, 0, 0, score)

\* score_signal: [base_score, weight, sentiment].
ScoreSignal(signal) ==
    IF signal.signal_type = "insider_cluster"
    THEN LET c == signal.sentiment
             boost == 10 + Min(signal.num_insiders - 3, 5)
         IN CASE c = "STRONG_BULLISH" ->
                   [base_score |-> 85, weight |-> 20 * boost, sentiment |-> 10]
              [] c = "BULLISH" -> [base_score |-> 70, weight |-> 15 * boost, sentiment |-> 7]
              [] c = "BEARISH" -> [base_score |-> 30, weight |-> 15 * boost, sentiment |-> -7]
              [] OTHER -> [base_score |-> 50, weight |-> 10 * boost, sentiment |-> 0]
    ELSE IF signal.source = "reddit" /\ signal.event_kind = "social_sentiment"
    THEN [base_score |-> Min(40 + signal.buzz_score \div 2, 80),
          weight |-> IF signal.buzz_score > 90 THEN 120 ELSE 80,
          sentiment |-> IF signal.sentiment_score > 20 THEN 6
                        ELSE IF signal.sentiment_score < -20 THEN -6 ELSE 0]
    ELSE IF signal.source \in {"sec_edgar", "SEC"}
    THEN IF signal.score >= 8 THEN [base_score |-> 80, weight |-> 180, sentiment |-> 8]
         ELSE IF signal.score >= 5 THEN [base_score |-> 65, weight |-> 130, sentiment |-> 5]
         ELSE IF signal.score >= 3 THEN [base_score |-> 55, weight |-> 100, sentiment |-> 3]
         ELSE [base_score |-> 45, weight |-> 80, sentiment |-> 0]
    ELSE [base_score |-> 50, weight |-> 100, sentiment |-> 0]

RECURSIVE SumOver(_, _)
SumOver(F(_), q) == IF q = <<>> THEN 0 ELSE F(Head(q)) + SumOver(F, Tail(q))

\* all(s >= 0 ...) or all(s <= 0 ...)
Alignment(scored) ==
    IF \/ \A i \in DOMAIN scored : scored[i].sentiment >= 0
       \/ \A i \in DOMAIN scored : scored[i].sentiment <= 0
    THEN "aligned" ELSE "conflicted"

\* The test of the alignment boost.
BoostsSingle(alignment, num_signals) == alignment = "aligned"
Boosts(alignment, num_signals) == alignment = "aligned" /\ num_signals > 1

\* The conviction level of a score.
LevelWithoutMedium(weighted_score) ==
    IF FGe(weighted_score, 80) THEN "HIGH"
    ELSE IF FGe(weighted_score, 50) THEN "LOW"
    ELSE "NEUTRAL"
Level(weighted_score) ==
    IF FGe(weighted_score, 80) THEN "HIGH"
    ELSE IF FGe(weighted_score, 65) THEN "MEDIUM"
    ELSE IF FGe(weighted_score, 50) THEN "LOW"
    ELSE "NEUTRAL"

\* The levels the tests of the float weighted_score may give.  The score of a
\* window of one signal is its base score, exactly; that of a longer window is
\* a quotient of floats that may lie just under its exact value, so where the
\* exact value is a threshold the test may go either way.
FloatLevels(weighted_score, num_signals) ==
    IF num_signals > 1 /\ \E k \in {80, 65, 50} : FEq(weighted_score, Frac(k, 1))
    THEN {Level(weighted_score), Level(Frac(weighted_score.n - 1, weighted_score.d))}
    ELSE {Level(weighted_score)}

\* fuse_window after the scoring loop, given the outcome of round() and of the
\* tests of the level; the net_sentiment is kept as a fraction of tenths.
FuseScored(scored, conviction_score, conviction) ==
    LET W(x) == x.weight
        BW(x) == x.base_score * x.weight
        SW(x) == x.sentiment * x.weight
        total_weight == SumOver(W, scored)
        mean == IF total_weight > 0 THEN Frac(SumOver(BW, scored), total_weight)
                ELSE Frac(50, 1)
        net_sentiment == IF total_weight > 0 THEN Frac(SumOver(SW, scored), total_weight)
                         ELSE Frac(0, 1)
        alignment == Alignment(scored)
        boosted == IF Boosts(alignment, Len(scored)) THEN FMin(FMul(mean, 12, 10), 100)
                   ELSE mean
        weighted_score == IF alignment = "conflicted" THEN FMul(boosted, 85, 100) ELSE boosted
    IN [weighted_score |-> weighted_score,
        conviction_score |-> conviction_score,
        conviction_level |-> conviction,
        net_sentiment |-> net_sentiment,
        alignment |-> alignment,
        num_signals |-> Len(scored)]

\* Nothing fused yet.
NoFused ==
    [pc |-> "scoring", scored |-> <<>>,
     fusion |-> [weighted_score |-> Frac(0, 1), conviction_score |-> 0,
                 conviction_level |-> "", net_sentiment |-> Frac(0, 1), alignment |-> "",
                 num_signals |-> 0]]

\* The signals a window is drawn from.
SignalSet ==
    {InsiderCluster("BULLISH", 3), InsiderCluster("BULLISH", 5),
     InsiderCluster("STRONG_BULLISH", 9), InsiderCluster("STRONG_BULLISH", 3),
     InsiderCluster("BEARISH", 3), InsiderCluster("MIXED", 0),
     Reddit(85, 30), Reddit(85, -30), Reddit(95, 30), Reddit(10, 0), Reddit(-100, 0),
     Reddit(30, -30),
     Filing("sec_edgar", 8), Filing("SEC", 5), Filing("sec_edgar", 3), Filing("SEC", 2),
     Signal("", "pr", "PR", "", 0, 0, 0, 4)}

-----------------------------------------------------------------------------
(* History bookkeeping (reads the state, never steers it) *)

FsValue(line) == ParseDatetimeUtc(line.fs)

\* A reconstruction with this ttl at this time leaves the TTL window of h's record.
TrackAfterConstruct(ttl) ==
    [h \in FPs |-> IF track[h] # None /\ ~(now - track[h] < ttl) THEN None ELSE track[h]]

NoTrack == [h \in FPs |-> None]

NoFresh == [h \in FPs |-> [fs |-> None, kept |-> FALSE]]

-----------------------------------------------------------------------------
(* The store's operations *)

Idle(s) == stores[s].alive /\ stores[s].pc = "idle"

\* SeenStore(state_path, ttl_days): a process (re)constructs its store.
Construct(s, ttl) ==
    /\ stores[s].pc = "idle"
    /\ stores' = [stores EXCEPT ![s] =
           [alive |-> TRUE, ttl |-> ttl, active |-> LoadActive(file, ttl, now),
            pc |-> "idle", cnow |-> 0, widx |-> 0]]
    /\ last' = [op |-> "construct", s |-> s, h |-> NoHash]
    /\ track' = TrackAfterConstruct(ttl)
    /\ UNCHANGED <<now, file, tmp, fresh>>
    /\ UNCHANGED <<hashVars, stageVars, fusionVars, sweepVars, hardenVars, parseVars>>

\* SeenStore.record(h, key)
Record(s, h) ==
    /\ Idle(s)
    /\ Len(file) < MaxFileLen
    /\ LET newActive == RecordUpsert(stores[s].active, h, KeyOf(h), now)
       IN /\ stores' = [stores EXCEPT ![s].active = newActive]
          /\ file' = RecordAppend(file, stores[s].active, newActive, h, KeyOf(h))
          /\ track' = [track EXCEPT ![h] =
                 IF @ = None THEN newActive[ActiveIndex(newActive, h)].first_seen_utc ELSE @]
          /\ fresh' = [fresh EXCEPT ![h] =
                 [fs |-> newActive[ActiveIndex(newActive, h)].first_seen_utc, kept |-> TRUE]]
    /\ last' = [op |-> "record", s |-> s, h |-> h]
    /\ UNCHANGED <<now, tmp>>
    /\ UNCHANGED <<hashVars, stageVars, fusionVars, sweepVars, hardenVars, parseVars>>

\* compact(), first step: tmp.open("w") truncates the temporary file; now is read.
CompactOpenPruning(s) ==
    /\ Idle(s)
    /\ stores' = [stores EXCEPT ![s].pc = "compacting", ![s].cnow = now, ![s].widx = 1,
                                ![s].active = SelectSeq(@, LAMBDA rec :
                                                  CompactKeep(now, rec, stores[s].ttl))]
    /\ tmp' = [exists |-> TRUE, lines |-> <<>>]
    /\ last' = [op |-> "compact_open", s |-> s, h |-> NoHash]
    /\ UNCHANGED <<now, file, track, fresh>>
    /\ UNCHANGED <<hashVars, stageVars, fusionVars, sweepVars, hardenVars, parseVars>>
CompactOpen(s) ==
    /\ Idle(s)
    /\ stores' = [stores EXCEPT ![s].pc = "compacting", ![s].cnow = now, ![s].widx = 1]
    /\ tmp' = [exists |-> TRUE, lines |-> <<>>]
    /\ last' = [op |-> "compact_open", s |-> s, h |-> NoHash]
    /\ UNCHANGED <<now, file, track, fresh>>
    /\ UNCHANGED <<hashVars, stageVars, fusionVars, sweepVars, hardenVars, parseVars>>

\* compact(), one turn of the loop over self._active.values().
CompactWriteInPlace(s) ==
    /\ stores[s].alive /\ stores[s].pc = "compacting"
    /\ stores[s].widx <= Len(stores[s].active)
    /\ LET rec == stores[s].active[stores[s].widx]
           out == IF CompactKeep(stores[s].cnow, rec, stores[s].ttl)
                  THEN <<CompactLine(rec)>> ELSE <<>>
       IN file' = (IF stores[s].widx = 1 THEN <<>> ELSE file) \o out
    /\ stores' = [stores EXCEPT ![s].widx = @ + 1]
    /\ last' = [op |-> "compact_write", s |-> s, h |-> NoHash]
    /\ UNCHANGED <<now, tmp, track, fresh>>
    /\ UNCHANGED <<hashVars, stageVars, fusionVars, sweepVars, hardenVars, parseVars>>
CompactWrite(s) ==
    /\ stores[s].alive /\ stores[s].pc = "compacting"
    /\ stores[s].widx <= Len(stores[s].active)
    /\ LET rec == stores[s].active[stores[s].widx]
       IN tmp' = [tmp EXCEPT !.lines =
              IF CompactKeep(stores[s].cnow, rec, stores[s].ttl)
              THEN Append(@, CompactLine(rec)) ELSE @]
    /\ stores' = [stores EXCEPT ![s].widx = @ + 1]
    /\ last' = [op |-> "compact_write", s |-> s, h |-> NoHash]
    /\ UNCHANGED <<now, file, track, fresh>>
    /\ UNCHANGED <<hashVars, stageVars, fusionVars, sweepVars, hardenVars, parseVars>>

\* compact(), last step: tmp.replace(self.state_path).
CompactReplaceAppends(s) ==
    /\ stores[s].alive /\ stores[s].pc = "compacting"
    /\ stores[s].widx > Len(stores[s].active)
    /\ file' = tmp.lines \o SelectSeq(file, LAMBDA line :
                   line.json /\ ~SeenIn(stores[s].active, line.hash))
    /\ tmp' = NoTmp
    /\ stores' = [stores EXCEPT ![s].pc = "idle"]
    /\ last' = [op |-> "compact", s |-> s, h |-> NoHash]
    /\ track' = NoTrack
    /\ fresh' = [h \in FPs |-> [fresh[h] EXCEPT !.kept = FALSE]]
    /\ UNCHANGED now
    /\ UNCHANGED <<hashVars, stageVars, fusionVars, sweepVars, hardenVars, parseVars>>
CompactReplace(s) ==
    /\ stores[s].alive /\ stores[s].pc = "compacting"
    /\ stores[s].widx > Len(stores[s].active)
    /\ file' = tmp.lines
    /\ tmp' = NoTmp
    /\ stores' = [stores EXCEPT ![s].pc = "idle"]
    /\ last' = [op |-> "compact", s |-> s, h |-> NoHash]
    /\ track' = NoTrack
    /\ fresh' = [h \in FPs |-> [fresh[h] EXCEPT !.kept = FALSE]]
    /\ UNCHANGED now
    /\ UNCHANGED <<hashVars, stageVars, fusionVars, sweepVars, hardenVars, parseVars>>

\* The process dies (at any point, also inside compact()); the files stay.
Crash(s) ==
    /\ stores[s].alive
    /\ stores' = [stores EXCEPT ![s] = DeadStore]
    /\ last' = [op |-> "crash", s |-> s, h |-> NoHash]
    /\ UNCHANGED <<now, file, tmp, track, fresh>>
    /\ UNCHANGED <<hashVars, stageVars, fusionVars, sweepVars, hardenVars, parseVars>>

\* Time passes.
Tick ==
    /\ now < MaxTime
    /\ now' = now + 1
    /\ last' = [op |-> "tick", s |-> 0, h |-> NoHash]
    /\ UNCHANGED <<storeVars, hashVars, stageVars, fusionVars, sweepVars, hardenVars, parseVars>>

-----------------------------------------------------------------------------
(* The state file a store may find at the start: lines of earlier runs, of *)
(* other machines, or damaged ones.                                         *)

InitLineSet ==
    {JsonLine(h, IsoFormat(t), IsoFormat(t), KeyOf(h)) : h \in FPs, t \in {0, InitNow + 1}}
    \cup {GarbageLine,
          JsonLine(NoHash, IsoFormat(0), IsoFormat(0), NoHash),
          JsonLine(FP1, BadTs, BadTs, KeyOf(FP1)),
          JsonLine(FP1, NoTs, IsoFormat(0), KeyOf(FP1)),
          JsonLine(FP2, IsoFormat(0), NoTs, KeyOf(FP2))}

\* No store has been constructed and nothing has happened.
NoStores ==
    /\ tmp = NoTmp
    /\ stores = [s \in StoreIds |-> DeadStore]
    /\ last = [op |-> "init", s |-> 0, h |-> NoHash]
    /\ track = NoTrack
    /\ fresh = NoFresh

\* The parts of the program a specification leaves out stay as they are here.
NoHashing == events = <<>> /\ hashes = [pc |-> 0, r1 |-> NoResult, r2 |-> NoResult]
NoStage == inputs = <<>> /\ outs = <<>> /\ run = 0 /\ hist = <<>>
NoFusion == window = <<>> /\ fused = NoFused
NoSweep == signals = <<>> /\ sweep = <<>>
NoHarden == queue = <<>> /\ harden = <<>>
NoParse == stamp = <<>> /\ parsed = <<>>

Init ==
    /\ now = InitNow
    /\ file \in SeqsUpTo(InitLineSet, MaxInitLines)
    /\ NoStores
    /\ NoHashing /\ NoStage /\ NoFusion /\ NoSweep /\ NoHarden /\ NoParse

Next ==
    \/ \E s \in Writers, ttl \in TtlChoices : Construct(s, ttl)
    \/ \E s \in Writers, h \in FPs : Record(s, h)
    \/ \E s \in Writers : CompactOpen(s)
    \/ \E s \in Writers : CompactWrite(s)
    \/ \E s \in Writers : CompactReplace(s)
    \/ \E s \in Writers : Crash(s)
    \/ Tick

Spec == Init /\ [][Next]_vars

-----------------------------------------------------------------------------
(* make_hash called on one event and, some time later, on another. *)

HashFirst ==
    /\ hashes.pc = 0
    /\ LET r == MakeHash(events[1], now)
       IN /\ hashes' = [hashes EXCEPT !.pc = 1, !.r1 = r]
          /\ last' = [op |-> "make_hash", s |-> 0, h |-> r.hash]
    /\ UNCHANGED <<now, events, storeVars, stageVars, fusionVars, sweepVars, hardenVars, parseVars>>

HashSecond ==
    /\ hashes.pc = 1
    /\ LET r == MakeHash(events[2], now)
       IN /\ hashes' = [hashes EXCEPT !.pc = 2, !.r2 = r]
          /\ last' = [op |-> "make_hash", s |-> 0, h |-> r.hash]
    /\ UNCHANGED <<now, events, storeVars, stageVars, fusionVars, sweepVars, hardenVars, parseVars>>

InitHash ==
    /\ now = InitNow
    /\ events \in EventPairs
    /\ hashes = [pc |-> 0, r1 |-> NoResult, r2 |-> NoResult]
    /\ file = <<>>
    /\ NoStores /\ NoStage /\ NoFusion /\ NoSweep /\ NoHarden /\ NoParse

NextHash ==
    \/ HashFirst
    \/ hashes.pc = 1 /\ Tick
    \/ HashSecond

SpecHash == InitHash /\ [][NextHash]_vars

-----------------------------------------------------------------------------
(* The signal-detection stage, run after run over the same input directory  *)
(* and the same state file.                                                  *)

\* main() up to the loop over the input files: the store is loaded.
RunStart(dedupe) ==
    /\ run.pc = "idle"
    /\ run.n < MaxRuns
    /\ stores' = [stores EXCEPT ![1] =
                     [alive |-> TRUE, ttl |-> DefaultTtlDays,
                      active |-> LoadActive(file, DefaultTtlDays, now),
                      pc |-> "idle", cnow |-> 0, widx |-> 0]]
    /\ run' = [n |-> run.n + 1, pc |-> "running", f |-> 1, i |-> 0, dedupe |-> dedupe]
    /\ hist' = Append(hist, [start |-> now, dedupe |-> dedupe, status |-> "running",
                             pre |-> file, emitted |-> <<>>, skipped |-> <<>>])
    /\ last' = [op |-> "run_start", s |-> 1, h |-> NoHash]
    /\ UNCHANGED <<now, file, tmp, track, fresh, inputs, outs, hashVars, fusionVars, sweepVars, hardenVars, parseVars>>

\* The with statement opens the next input file and truncates its signals file.
OpenFileAppending ==
    /\ run.pc = "running"
    /\ run.f <= Len(inputs.files)
    /\ run.i = 0
    /\ outs' = outs
    /\ run' = [run EXCEPT !.i = 1]
    /\ last' = [op |-> "open", s |-> 1, h |-> NoHash]
    /\ UNCHANGED <<now, storeVars, inputs, hist, hashVars, fusionVars, sweepVars, hardenVars, parseVars>>
OpenFile ==
    /\ run.pc = "running"
    /\ run.f <= Len(inputs.files)
    /\ run.i = 0
    /\ outs' = [outs EXCEPT ![run.f] = <<>>]
    /\ run' = [run EXCEPT !.i = 1]
    /\ last' = [op |-> "open", s |-> 1, h |-> NoHash]
    /\ UNCHANGED <<now, storeVars, inputs, hist, hashVars, fusionVars, sweepVars, hardenVars, parseVars>>

\* The gate of the loop body: s >= args.threshold and hits.
PassesAnyScore(s, threshold, hits) == hits # <<>>
Passes(s, threshold, hits) == s >= threshold /\ hits # <<>>

\* The dedupe test of the loop body: use_dedupe and store.seen(h).
IsDuplicateNever(use_dedupe, active, h) == FALSE
IsDuplicate(use_dedupe, active, h) == use_dedupe /\ SeenIn(active, h)

\* One turn of the loop over the lines of the open file.
ReadLine ==
    /\ run.pc = "running"
    /\ run.f <= Len(inputs.files)
    /\ run.i >= 1
    /\ run.i <= Len(inputs.files[run.f])
    /\ \E line \in {inputs.files[run.f][run.i]} :
       \E d \in {line.d} :
       \E hits \in {HitTags(JoinText(d.title, d.body))} :
       \E s \in {ScoreHits(hits, d.event_kind, d.event_subtype)} :
       \E r \in {MakeHash(d, now)} :
       \E active \in {stores[1].active} :
       LET at == [f |-> run.f, i |-> run.i, h |-> r.hash]
           skip == /\ run' = [run EXCEPT !.i = @ + 1]
                   /\ UNCHANGED <<file, stores, outs>>
       IN IF line.blank
          THEN skip /\ hist' = hist /\ last' = [op |-> "blank", s |-> 1, h |-> NoHash]
          ELSE IF ~line.json
          THEN \* json.loads raises: the process ends, the files are closed
               /\ run' = [run EXCEPT !.pc = "idle"]
               /\ stores' = [stores EXCEPT ![1] = DeadStore]
               /\ hist' = [hist EXCEPT ![run.n].status = "aborted"]
               /\ last' = [op |-> "abort", s |-> 1, h |-> NoHash]
               /\ UNCHANGED <<file, outs>>
          ELSE IF inputs.watchlist.enabled /\ ~Allowed(inputs.watchlist, d)
          THEN skip /\ hist' = hist /\ last' = [op |-> "unwatched", s |-> 1, h |-> NoHash]
          ELSE IF ~Passes(s, inputs.threshold, hits)
          THEN skip /\ hist' = hist /\ last' = [op |-> "low", s |-> 1, h |-> NoHash]
          ELSE IF IsDuplicate(run.dedupe, active, r.hash)
          THEN /\ skip
               /\ hist' = [hist EXCEPT ![run.n].skipped = Append(@, at)]
               /\ last' = [op |-> "dupe", s |-> 1, h |-> r.hash]
          ELSE \E newActive \in {RecordUpsert(active, r.hash, r.key, now)} :
                  /\ outs' = [outs EXCEPT ![run.f] = Append(@, SignalLine(d, s, hits))]
                  /\ stores' = IF run.dedupe THEN [stores EXCEPT ![1].active = newActive]
                               ELSE stores
                  /\ file' = IF run.dedupe
                             THEN RecordAppend(file, active, newActive, r.hash, r.key)
                             ELSE file
                  /\ run' = [run EXCEPT !.i = @ + 1]
                  /\ hist' = [hist EXCEPT ![run.n].emitted = Append(@, at)]
                  /\ last' = [op |-> "emit", s |-> 1, h |-> r.hash]
    /\ UNCHANGED <<now, tmp, track, fresh, inputs, hashVars, fusionVars, sweepVars, hardenVars, parseVars>>

\* The end of the with statement: on to the next input file.
CloseFile ==
    /\ run.pc = "running"
    /\ run.f <= Len(inputs.files)
    /\ run.i > Len(inputs.files[run.f])
    /\ run' = [run EXCEPT !.f = @ + 1, !.i = 0]
    /\ last' = [op |-> "close", s |-> 1, h |-> NoHash]
    /\ UNCHANGED <<now, storeVars, inputs, outs, hist, hashVars, fusionVars, sweepVars, hardenVars, parseVars>>

\* After the last file: compact() when the state file has grown past 5 MB (the
\* lines may be of any length), then the process ends.
RunEnd(big) ==
    /\ run.pc = "running"
    /\ run.f > Len(inputs.files)
    /\ big => file # <<>>
    /\ file' = IF big THEN CompactLines(stores[1].active, 1, now, stores[1].ttl) ELSE file
    /\ stores' = [stores EXCEPT ![1] = DeadStore]
    /\ run' = [run EXCEPT !.pc = "idle"]
    /\ hist' = [hist EXCEPT ![run.n].status = "done"]
    /\ last' = [op |-> IF big THEN "run_end_compact" ELSE "run_end", s |-> 1, h |-> NoHash]
    /\ UNCHANGED <<now, tmp, track, fresh, inputs, outs, hashVars, fusionVars, sweepVars, hardenVars, parseVars>>

\* The next step of the run reads the clock: a line that reaches make_hash, or
\* the end of the run with a state file to compact.
ReadsClockNext ==
    IF run.f > Len(inputs.files) THEN file # <<>>
    ELSE /\ run.i >= 1
         /\ run.i <= Len(inputs.files[run.f])
         /\ LET line == inputs.files[run.f][run.i]
                hits == HitTags(JoinText(line.d.title, line.d.body))
            IN /\ line.json
               /\ inputs.watchlist.enabled => Allowed(inputs.watchlist, line.d)
               /\ Passes(ScoreHits(hits, line.d.event_kind, line.d.event_subtype),
                         inputs.threshold, hits)

\* A day passes: between two runs, or in a run before a step that reads the clock.
StageTick ==
    /\ now < StageInitNow + MaxStageTicks
    /\ run.pc = "running" => ReadsClockNext
    /\ now' = now + 1
    /\ last' = [op |-> "tick", s |-> 0, h |-> NoHash]
    /\ UNCHANGED <<storeVars, hashVars, stageVars, fusionVars, sweepVars, hardenVars, parseVars>>

\* A TTL's worth of days passes between two runs.
StageSleep ==
    /\ run.pc = "idle"
    /\ now + DefaultTtlDays <= StageMaxTime
    /\ now' = now + DefaultTtlDays
    /\ last' = [op |-> "sleep", s |-> 0, h |-> NoHash]
    /\ UNCHANGED <<storeVars, hashVars, stageVars, fusionVars, sweepVars, hardenVars, parseVars>>

InitStage ==
    /\ now = StageInitNow
    /\ inputs \in StageInputs
    /\ outs = [f \in DOMAIN inputs.files |-> <<>>]
    /\ run = NoRun
    /\ hist = <<>>
    /\ file \in StagePreStates
    /\ NoStores /\ NoHashing /\ NoFusion /\ NoSweep /\ NoHarden /\ NoParse

NextStage ==
    \/ \E dedupe \in BOOLEAN : RunStart(dedupe)
    \/ OpenFile
    \/ ReadLine
    \/ CloseFile
    \/ \E big \in BOOLEAN : RunEnd(big)
    \/ StageTick
    \/ StageSleep

SpecStage == InitStage /\ [][NextStage]_vars

-----------------------------------------------------------------------------
(* fuse_window on one window of signals. *)

\* One turn of the scoring loop.
ScoreNext ==
    /\ fused.pc = "scoring"
    /\ Len(fused.scored) < Len(window)
    /\ fused' = [fused EXCEPT !.scored = Append(@, ScoreSignal(window[Len(@) + 1]))]
    /\ last' = [op |-> "score_signal", s |-> 0, h |-> NoHash]
    /\ UNCHANGED <<now, window, storeVars, hashVars, stageVars, sweepVars, hardenVars, parseVars>>

\* The rest of fuse_window.
Fuse ==
    /\ fused.pc = "scoring"
    /\ Len(fused.scored) = Len(window)
    /\ \E c \in Round1(FuseScored(fused.scored, 0, "").weighted_score),
          l \in FloatLevels(FuseScored(fused.scored, 0, "").weighted_score, Len(fused.scored)) :
           fused' = [fused EXCEPT !.pc = "done", !.fusion = FuseScored(fused.scored, c, l)]
    /\ last' = [op |-> "fuse_window", s |-> 0, h |-> NoHash]
    /\ UNCHANGED <<now, window, storeVars, hashVars, stageVars, sweepVars, hardenVars, parseVars>>

InitFusion ==
    /\ now = InitNow
    /\ window \in SeqsUpTo(SignalSet, MaxWindow) \ {<<>>}
    /\ fused = NoFused
    /\ file = <<>>
    /\ NoStores /\ NoHashing /\ NoStage /\ NoSweep /\ NoHarden /\ NoParse

NextFusion ==
    \/ ScoreNext
    \/ Fuse

SpecFusion == InitFusion /\ [][NextFusion]_vars

-----------------------------------------------------------------------------
(* fuse_signals (signal_detect/signal_fusion.py): the sweep over the signals *)
(* of each ticker.  Here a clock reading and a time field count hours, and   *)
(* the scoring of a window (fuse_window) is the specification SpecFusion.    *)

MaxSignals == 3         \* the longest list handed to fuse_signals
MaxSweepTicks == 1      \* the clock readings of one call differ by at most this
SweepInitNow == 1       \* the clock when fuse_signals is called

\* A time string without a UTC offset (such as a date alone).
NaiveIso(t) == [kind |-> "naive", t |-> t]

\* parse_datetime: an aware or a naive datetime; the clock when nothing parses.
ParseDatetime(dt_str, now_) ==
    IF dt_str.kind = "iso" THEN [aware |-> TRUE, t |-> dt_str.t]
    ELSE IF dt_str.kind = "naive" THEN [aware |-> FALSE, t |-> dt_str.t]
    ELSE [aware |-> TRUE, t |-> now_]

\* s.get("event_datetime") or s.get("event_datetime_utc") or s.get("cluster_start_date") or ""
TimeField(sig) ==
    IF Truthy(sig.event_datetime) THEN sig.event_datetime
    ELSE IF Truthy(sig.event_datetime_utc) THEN sig.event_datetime_utc
    ELSE sig.cluster_start_date

\* sig.get("ticker") or sig.get("issuer_ticker"); "" when neither is there.
TickerOf(sig) == IF sig.ticker # "" THEN sig.ticker ELSE sig.issuer_ticker

\* by_ticker[ticker].append(sig): the groups in the order of their first signal.
AddToGroup(by_ticker, ticker, x) ==
    IF \E g \in DOMAIN by_ticker : by_ticker[g].ticker = ticker
    THEN [g \in DOMAIN by_ticker |->
             IF by_ticker[g].ticker = ticker
             THEN [by_ticker[g] EXCEPT !.members = Append(@, x)]
             ELSE by_ticker[g]]
    ELSE Append(by_ticker, [ticker |-> ticker, members |-> <<x>>])

\* The grouping loop over the first n signals of the list, signals kept by index.
RECURSIVE GroupByTicker(_, _)
GroupByTicker(list, n) ==
    IF n = 0 THEN <<>>
    ELSE IF TickerOf(list[n]) # ""
         THEN AddToGroup(GroupByTicker(list, n - 1), TickerOf(list[n]), n)
         ELSE GroupByTicker(list, n - 1)

\* sorted(..., key=...) is stable: x goes behind every element whose key is not later.
InsertByKey(q, x, keys) ==
    LET n == Cardinality({p \in DOMAIN q : keys[q[p]].t <= keys[x].t})
    IN SubSeq(q, 1, n) \o <<x>> \o SubSeq(q, n + 1, Len(q))

RECURSIVE SortedByKey(_, _)
SortedByKey(q, keys) ==
    IF q = <<>> THEN <<>>
    ELSE InsertByKey(SortedByKey(SubSeq(q, 1, Len(q) - 1), keys), q[Len(q)], keys)

\* Comparing an offset-naive with an offset-aware datetime raises TypeError; any
\* sort of a group that holds both kinds compares two such keys.
ComparesNaiveWithAware(q, keys) ==
    \E a \in DOMAIN q, b \in DOMAIN q : keys[q[a]].aware # keys[q[b]].aware

\* A signal as fuse_signals reads it.
SweepSignal(ticker, issuer_ticker, event_datetime, event_datetime_utc, cluster_start_date) ==
    [ticker |-> ticker, issuer_ticker |-> issuer_ticker, event_datetime |-> event_datetime,
     event_datetime_utc |-> event_datetime_utc, cluster_start_date |-> cluster_start_date]

\* What the producers write: a Reddit signal, a signal of the detection stage, an
\* insider cluster (dated by a date alone), and signals with no time or no ticker.
RedditSignal(t) == SweepSignal("T1", "", IsoFormat(t), NoTs, NoTs)
StageSignal(ticker, t) == SweepSignal(ticker, "", NoTs, IsoFormat(t), NoTs)
ClusterSignal(t) == SweepSignal("", "T1", NoTs, NoTs, NaiveIso(t))
UntimedSignal == SweepSignal("T1", "", NoTs, BadTs, NoTs)
NoTickerSignal == SweepSignal("", "", IsoFormat(0), NoTs, NoTs)

SweepSignals ==
    {RedditSignal(0), RedditSignal(2), StageSignal("T1", 1), StageSignal("T2", 1),
     ClusterSignal(0), ClusterSignal(1), UntimedSignal, NoTickerSignal}

WindowHours == {0, 1}

\* fuse_signals before it is called.
SweepStart ==
    [pc |-> "start", by_ticker |-> <<>>, g |-> 0, ticker_signals |-> <<>>, i |-> 0,
     j |-> 0, anchor_time |-> [aware |-> TRUE, t |-> 0],
     window_end |-> [aware |-> TRUE, t |-> 0], window_signals |-> <<>>,
     fused |-> <<>>, order |-> <<>>, spins |-> 0]

\* The datetime the code reads for signal x of the list at this moment.
TimeOfSignal(x) == ParseDatetime(TimeField(signals.list[x]), now)

\* The time field of signal x does not parse: its time is read off the clock.
ReadsClock(x) == TimeField(signals.list[x]).kind \notin {"iso", "naive"}

\* The steps of fuse_signals leave the other specifications' variables alone.
SweepFrame == UNCHANGED <<now, signals, storeVars, hashVars, stageVars, fusionVars, hardenVars, parseVars>>

\* The end of the work on the group g: the next ticker, or return fused.
AfterGroup(s) ==
    IF s.g < Len(s.by_ticker) THEN [s EXCEPT !.pc = "sort", !.g = @ + 1]
    ELSE [s EXCEPT !.pc = "returned"]

\* if not signals: return []; then the grouping loop.
SweepGroup ==
    /\ sweep.pc = "start"
    /\ LET by_ticker == GroupByTicker(signals.list, Len(signals.list))
       IN sweep' = IF by_ticker = <<>> THEN [sweep EXCEPT !.pc = "returned"]
                   ELSE [sweep EXCEPT !.pc = "sort", !.by_ticker = by_ticker, !.g = 1]
    /\ last' = [op |-> "group", s |-> 0, h |-> NoHash]
    /\ SweepFrame

\* ticker_signals = sorted(ticker_signals, key=...): raises when the keys cannot
\* be compared, and then fuse_signals returns nothing.
SweepSort ==
    /\ sweep.pc = "sort"
    /\ LET members == sweep.by_ticker[sweep.g].members
           keys == [x \in DOMAIN signals.list |-> TimeOfSignal(x)]
       IN IF ComparesNaiveWithAware(members, keys)
          THEN sweep' = [sweep EXCEPT !.pc = "raised", !.fused = <<>>]
          ELSE \E sorted \in {SortedByKey(members, keys)} :
                  sweep' = [sweep EXCEPT !.pc = "anchor", !.ticker_signals = sorted,
                                         !.i = 0, !.order = Append(@, sorted)]
    /\ last' = [op |-> "sort", s |-> 0, h |-> NoHash]
    /\ SweepFrame

\* The head of the while loop: the anchor and the end of its window.
SweepAnchor ==
    /\ sweep.pc = "anchor"
    /\ \E anchor_time \in {TimeOfSignal(sweep.ticker_signals[sweep.i + 1])} :
          sweep' = [sweep EXCEPT !.pc = "collect", !.anchor_time = anchor_time,
                                 !.window_end = [anchor_time EXCEPT !.t = @ + signals.window_hours],
                                 !.window_signals = <<>>, !.j = sweep.i + 1]
    /\ last' = [op |-> "anchor", s |-> 0, h |-> NoHash]
    /\ SweepFrame

\* One turn of the loop over ticker_signals[i:].
SweepCollect ==
    /\ sweep.pc = "collect"
    /\ IF sweep.j > Len(sweep.ticker_signals)
       THEN sweep' = [sweep EXCEPT !.pc = "fuse"]
       ELSE \E sig_time \in {TimeOfSignal(sweep.ticker_signals[sweep.j])} :
               sweep' = IF sig_time.aware # sweep.window_end.aware
                        THEN [sweep EXCEPT !.pc = "raised", !.fused = <<>>]
                        ELSE IF sig_time.t <= sweep.window_end.t
                        THEN [sweep EXCEPT !.window_signals = Append(@, sweep.ticker_signals[sweep.j]),
                                           !.j = @ + 1]
                        ELSE [sweep EXCEPT !.pc = "fuse"]
    /\ last' = [op |-> "collect", s |-> 0, h |-> NoHash]
    /\ SweepFrame

\* The window is fused when it holds a signal, and i moves past it.
SweepFuse ==
    /\ sweep.pc = "fuse"
    /\ LET n == Len(sweep.window_signals)
           fusion == [ticker |-> sweep.by_ticker[sweep.g].ticker, num_signals |-> n,
                      component_signals |-> sweep.window_signals,
                      window_start |-> sweep.anchor_time.t, window_end |-> sweep.window_end.t]
           moved == [sweep EXCEPT !.fused = IF n >= 1 THEN Append(@, fusion) ELSE @,
                                  !.i = @ + n,
                                  !.spins = IF n = 0 THEN 1 ELSE @]
       IN sweep' = IF moved.i >= Len(sweep.ticker_signals) THEN AfterGroup(moved)
                   ELSE [moved EXCEPT !.pc = "anchor"]
    /\ last' = [op |-> "fuse", s |-> 0, h |-> NoHash]
    /\ SweepFrame

\* The clock advances between two readings of it.
SweepTick ==
    /\ now < SweepInitNow + MaxSweepTicks
    /\ \/ sweep.pc = "anchor" /\ ReadsClock(sweep.ticker_signals[sweep.i + 1])
       \/ /\ sweep.pc = "collect"
          /\ sweep.j <= Len(sweep.ticker_signals)
          /\ ReadsClock(sweep.ticker_signals[sweep.j])
    /\ now' = now + 1
    /\ last' = [op |-> "tick", s |-> 0, h |-> NoHash]
    /\ UNCHANGED <<storeVars, hashVars, stageVars, fusionVars, sweepVars, hardenVars, parseVars>>

InitSweep ==
    /\ now = SweepInitNow
    /\ signals \in [list : SeqsUpTo(SweepSignals, MaxSignals), window_hours : WindowHours]
    /\ sweep = SweepStart
    /\ file = <<>>
    /\ NoStores /\ NoHashing /\ NoStage /\ NoFusion /\ NoHarden /\ NoParse

NextSweep ==
    \/ SweepGroup
    \/ SweepSort
    \/ SweepAnchor
    \/ SweepCollect
    \/ SweepFuse
    \/ SweepTick

SpecSweep == InitSweep /\ [][NextSweep]_vars

-----------------------------------------------------------------------------
(* parse_to_utc and to_iso_utc (shared/datetime_utils.py)                    *)
(*                                                                           *)
(* A date-time string is kept by its spelling: the separators it uses,       *)
(* whether it has seconds, how it writes its zone, and beside them the wall  *)
(* time t it shows and the offset off of its zone, both in hours.  Here a    *)
(* datetime is a number of hours from datetime.min.                          *)

DtMin == 0      \* datetime.min
DtMax == 30     \* datetime.max
MinDt == 6      \* _MIN_DT
MaxDt == 24     \* _MAX_DT

\* An ISO-like string: [date]<dt_sep>[time][tz], with spaces around it when pad.
IsoStamp(pad, date_sep, dt_sep, secs, tz, t, off) ==
    [form |-> "iso", pad |-> pad, date_sep |-> date_sep, dt_sep |-> dt_sep, secs |-> secs,
     tz |-> tz, t |-> t, off |-> off]

\* An RFC-2822 string, "Sun, 05 Oct 2025 06:20:00 GMT"; tz is "GMT", "+HHMM",
\* "-0000" or "".
RfcStamp(pad, tz, t, off) ==
    [form |-> "rfc", pad |-> pad, date_sep |-> " ", dt_sep |-> " ", secs |-> TRUE,
     tz |-> tz, t |-> t, off |-> off]

\* Any other text; "" is the empty string.
TextStamp(pad, text) ==
    [form |-> "text", pad |-> pad, date_sep |-> "", dt_sep |-> "", secs |-> FALSE,
     tz |-> text, t |-> 0, off |-> 0]

NoneStamp == [form |-> "none", pad |-> FALSE, date_sep |-> "", dt_sep |-> "", secs |-> FALSE,
              tz |-> "", t |-> 0, off |-> 0]

\* s.strip()
StripStamp(s) == [s EXCEPT !.pad = FALSE]

\* if s.endswith("z"): s = s[:-1] + "Z"
UpperZ(s) == IF s.form = "iso" /\ s.tz = "z" THEN [s EXCEPT !.tz = "Z"] ELSE s

\* re.sub(r"^(\d{4})/(\d{2})/(\d{2})", r"\1-\2-\3", s)
SlashToDash(s) == IF s.form = "iso" /\ s.date_sep = "/" THEN [s EXCEPT !.date_sep = "-"] ELSE s

\* The first space between a dashed date and the time becomes "T".
SpaceToT(s) ==
    IF s.form = "iso" /\ s.date_sep = "-" /\ s.dt_sep = " " THEN [s EXCEPT !.dt_sep = "T"] ELSE s

\* ":00" is added to an ISO-like string without seconds.
AddSeconds(s) ==
    IF s.form = "iso" /\ s.date_sep = "-" /\ s.dt_sep = "T" /\ ~s.secs
       /\ s.tz \in {"", "Z", "+HH:MM", "+HHMM", " +HHMM"}
    THEN [s EXCEPT !.secs = TRUE] ELSE s

\* "+HHMM" or " +HHMM" at the end becomes "+HH:MM".
ColonOffsetKeep(s) == s
ColonOffset(s) == IF s.tz \in {"+HHMM", " +HHMM"} THEN [s EXCEPT !.tz = "+HH:MM"] ELSE s

\* if s.endswith("Z"): s = s[:-1] + "+00:00"
ZToOffset(s) == IF s.form = "iso" /\ s.tz = "Z" THEN [s EXCEPT !.tz = "+HH:MM", !.off = 0] ELSE s

\* _normalize_candidate
NormalizeCandidate(s) ==
    ZToOffset(ColonOffset(AddSeconds(SpaceToT(SlashToDash(UpperZ(StripStamp(s)))))))

\* A datetime: the wall time, and the offset of its tzinfo when it has one.
NoDatetime == [ok |-> FALSE, aware |-> FALSE, t |-> 0, off |-> 0]
Datetime(aware, t, off) == [ok |-> TRUE, aware |-> aware, t |-> t, off |-> off]

\* datetime.fromisoformat: a dashed date alone, or date "T" time with seconds and
\* either no zone or "+HH:MM".
FromIsoformat(s) ==
    IF s.form = "iso" /\ ~s.pad /\ s.date_sep = "-"
       /\ \/ s.dt_sep = "" /\ s.tz = ""
          \/ s.dt_sep = "T" /\ s.secs /\ s.tz \in {"", "+HH:MM"}
    THEN Datetime(s.tz # "", s.t, s.off)
    ELSE NoDatetime

\* email.utils.parsedate_to_datetime: aware when the string names a zone; the
\* offset "-0000" names none.
ParsedateToDatetime(s) ==
    IF s.form = "rfc" THEN Datetime(s.tz \notin {"", "-0000"}, s.t, s.off) ELSE NoDatetime

\* The zones a hint may name; any other name makes ZoneInfo raise.
Zones == {"UTC", "America/New_York"}

\* The offset ZoneInfo gives a wall time (fold = 0): New York is five hours
\* behind UTC, four while daylight time lasts (wall times 6 to 13 here, the hour
\* 5 skipped when it starts and the hour 13 repeated when it ends); of the two
\* instants of a repeated hour the earlier is meant, and a skipped hour counts
\* as not yet changed.
ZoneOffset(zone, t) ==
    IF zone = "America/New_York" THEN (IF t >= MinDt /\ t <= MinDt + 7 THEN -4 ELSE -5) ELSE 0

\* The offset of the zone at the UTC instant u.
ZoneOffsetAtInstant(zone, u) ==
    IF zone = "America/New_York" THEN (IF u >= MinDt + 4 /\ u < MinDt + 12 THEN -4 ELSE -5) ELSE 0

\* dt.replace(tzinfo=...) of a naive datetime: the hinted zone, UTC without a
\* usable hint.
Localize(dt, naive_tz) ==
    IF dt.aware THEN dt
    ELSE IF naive_tz \in Zones THEN Datetime(TRUE, dt.t, ZoneOffset(naive_tz, dt.t))
    ELSE Datetime(TRUE, dt.t, 0)

\* What parse_to_utc does: it returns a UTC datetime t, or raises ValueError
\* (missing, unparseable, out_of_range) or, from astimezone, OverflowError.
Outcome(status, t) == [status |-> status, t |-> t]

\* The test of the sanity window.
InWindow(t) == MinDt <= t /\ t < MaxDt

\* parse_to_utc
ParseToUtc(dt_str, naive_tz) ==
    IF dt_str.form = "none" \/ (dt_str.form = "text" /\ dt_str.tz = "") THEN Outcome("missing", 0)
    ELSE LET raw == StripStamp(dt_str)
             iso == FromIsoformat(NormalizeCandidate(raw))
             dt == IF iso.ok THEN iso ELSE ParsedateToDatetime(raw)
         IN IF ~dt.ok THEN Outcome("unparseable", 0)
            ELSE LET dt_utc == Localize(dt, naive_tz).t - Localize(dt, naive_tz).off
                 IN IF dt_utc < DtMin \/ dt_utc > DtMax THEN Outcome("OverflowError", 0)
                    ELSE IF ~InWindow(dt_utc) THEN Outcome("out_of_range", 0)
                    ELSE Outcome("ok", dt_utc)

\* to_iso_utc of a UTC datetime: strftime("%Y-%m-%dT%H:%M:%SZ").
ToIsoUtc(t) == IsoStamp(FALSE, "-", "T", TRUE, "Z", t, 0)

\* STRICT_Z_ISO_PATTERN.match(v)
IsStrict(s) ==
    s.form = "iso" /\ ~s.pad /\ s.date_sep = "-" /\ s.dt_sep = "T" /\ s.secs /\ s.tz = "Z"

\* The offsets a string may write, in hours.
Offsets == {-4, 0, 5}

\* The wall times a string may show.
WallTimes == DtMin..DtMax

\* The spellings of a zone in an ISO-like string, with the offsets each may carry.
IsoZones ==
    {<<"", 0>>, <<"Z", 0>>, <<"z", 0>>}
      \cup ({"+HH:MM", "+HHMM", " +HHMM"} \X Offsets)

RfcZones == {<<"", 0>>, <<"GMT", 0>>, <<"-0000", 0>>} \cup ({"+HHMM"} \X Offsets)

\* The strings handed to parse_to_utc.
StampSet ==
    {IsoStamp(pad, ds, sep, secs, z[1], t, z[2]) :
        pad \in BOOLEAN, ds \in {"-", "/"}, sep \in {"T", " "}, secs \in BOOLEAN,
        z \in IsoZones, t \in WallTimes}
      \cup {IsoStamp(pad, ds, "", FALSE, "", t, 0) : pad \in BOOLEAN, ds \in {"-", "/"}, t \in WallTimes}
      \cup {RfcStamp(pad, z[1], t, z[2]) : pad \in BOOLEAN, z \in RfcZones, t \in WallTimes}
      \cup {TextStamp(pad, text) : pad \in BOOLEAN, text \in {"", "garbage"}}
      \cup {NoneStamp}

\* The values of naive_tz: none, two zones, and a name ZoneInfo does not know.
ZoneHints == {"", "UTC", "America/New_York", "Mars/Phobos"}

ParseStart == [pc |-> "start", out |-> Outcome("none", 0), iso |-> NoneStamp]

\* dt = parse_to_utc(s, naive_tz)
ParseCall ==
    /\ parsed.pc = "start"
    /\ parsed' = [parsed EXCEPT !.pc = IF ParseToUtc(stamp.s, stamp.naive_tz).status = "ok"
                                       THEN "parsed" ELSE "raised",
                                !.out = ParseToUtc(stamp.s, stamp.naive_tz)]
    /\ UNCHANGED <<now, last, stamp, storeVars, hashVars, stageVars, fusionVars, sweepVars, hardenVars>>

\* to_iso_utc(dt)
FormatCall ==
    /\ parsed.pc = "parsed"
    /\ parsed' = [parsed EXCEPT !.pc = "formatted", !.iso = ToIsoUtc(parsed.out.t)]
    /\ UNCHANGED <<now, last, stamp, storeVars, hashVars, stageVars, fusionVars, sweepVars, hardenVars>>

InitParse ==
    /\ now = InitNow
    /\ file = <<>>
    /\ NoStores /\ NoHashing /\ NoStage /\ NoFusion /\ NoSweep /\ NoHarden
    /\ stamp \in [s : StampSet, naive_tz : ZoneHints]
    /\ parsed = ParseStart

NextParse == ParseCall \/ FormatCall

SpecParse == InitParse /\ [][NextParse]_vars

-----------------------------------------------------------------------------
(* harden_record (normalize_enrich/timestamp_hardener.py)                    *)
(*                                                                           *)
(* A record is a dict kept as the sequence of its <<key, value>> pairs in    *)
(* insertion order.  Its values are JSON strings, written as the date-time   *)
(* strings above (TextStamp(FALSE, "sec") is the string "sec"), or booleans. *)

BoolVal(b) ==
    [form |-> "bool", pad |-> FALSE, date_sep |-> "", dt_sep |-> "", secs |-> FALSE,
     tz |-> IF b THEN "true" ELSE "false", t |-> 0, off |-> 0]

StrVal(text) == TextStamp(FALSE, text)

\* The position of the key k in the dict d, 0 when d has no such key.
KeyIndex(d, k) ==
    IF \E i \in DOMAIN d : d[i][1] = k THEN CHOOSE i \in DOMAIN d : d[i][1] = k ELSE 0

\* k in d
HasKey(d, k) == KeyIndex(d, k) # 0

\* d.get(k)
Get(d, k) == IF HasKey(d, k) THEN d[KeyIndex(d, k)][2] ELSE NoneStamp

\* d[k] = v: a new key goes last, a key of the dict keeps its place.
PutLast(d, k, v) == Append(d, <<k, v>>)
Put(d, k, v) ==
    IF HasKey(d, k) THEN [d EXCEPT ![KeyIndex(d, k)] = <<k, v>>] ELSE Append(d, <<k, v>>)

\* bool(v)
IsTruthy(v) ==
    /\ v.form # "none"
    /\ ~(v.form = "text" /\ v.tz = "" /\ ~v.pad)
    /\ ~(v.form = "bool" /\ v.tz = "false")

\* (rec.get("source") or "").strip().lower()
SourceOf(rec) == IF Get(rec, "source").form = "text" THEN Get(rec, "source").tz ELSE ""

\* _source_defaults, the environment left unset
SourceDefaults(source) == IF source = "sec" THEN "America/New_York" ELSE "UTC"

\* _candidate_fields
CandidateFields(source) ==
    IF source = "sec" THEN <<"filing_datetime", "acceptance_datetime", "published_at">>
    ELSE IF source = "pr" THEN <<"pubDate", "published", "updated", "lastBuildDate">>
    ELSE <<"published_at", "updated", "pubDate", "published">>

\* _has_any_candidates
HasAnyCandidates(rec, fields) == \E i \in DOMAIN fields : IsTruthy(Get(rec, fields[i]))

\* _already_strict
AlreadyStrict(rec) == IsStrict(Get(rec, "event_datetime_utc"))

\* The loop over the candidate fields from the i-th on: the first field that
\* parses ends it, a ValueError is remembered and the next field is tried, any
\* other exception leaves harden_record.
RECURSIVE TryFields(_, _, _, _, _)
TryFields(rec, fields, i, naive_tz, last_error) ==
    IF i > Len(fields) THEN [status |-> "fail", f |-> "", t |-> 0, last_error |-> last_error]
    ELSE IF ~IsTruthy(Get(rec, fields[i])) THEN TryFields(rec, fields, i + 1, naive_tz, last_error)
    ELSE IF ParseToUtc(Get(rec, fields[i]), naive_tz).status = "ok"
    THEN [status |-> "ok", f |-> fields[i], t |-> ParseToUtc(Get(rec, fields[i]), naive_tz).t,
          last_error |-> last_error]
    ELSE IF ParseToUtc(Get(rec, fields[i]), naive_tz).status = "OverflowError"
    THEN [status |-> "raised", f |-> fields[i], t |-> 0, last_error |-> last_error]
    ELSE TryFields(rec, fields, i + 1, naive_tz, ParseToUtc(Get(rec, fields[i]), naive_tz).status)

\* The counters of a run.
NoTotals ==
    [files |-> 0, records |-> 0, timestamps_parsed_ok |-> 0, timestamp_backfilled |-> 0,
     timestamp_parse_fail |-> 0, timestamp_missing_or_error |-> 0]

\* What harden_record does: it returns the record out, or raises.
Hardened(out, totals) == [raised |-> FALSE, rec |-> out, totals |-> totals]
HardenRaised(totals) == [raised |-> TRUE, rec |-> <<>>, totals |-> totals]

\* out with the strict time t, taken from the field f.
WithTime(out, t, f, backfilled) ==
    Put(Put(Put(out, "event_datetime_utc", ToIsoUtc(t)), "timestamp_source", StrVal(f)),
        "timestamp_backfilled", BoolVal(backfilled))

\* The end of harden_record: the record is marked missing when it had no
\* candidate.
HardenTail(rec, out, totals) ==
    Hardened(IF ~HasAnyCandidates(rec, CandidateFields(SourceOf(rec)))
             THEN Put(out, "timestamp_error", StrVal("missing")) ELSE out,
             [totals EXCEPT !.timestamp_missing_or_error = @ + 1])

\* The backfill from ingested_at_utc.
HardenBackfill(rec, out, totals) ==
    IF ~(HasKey(rec, "ingested_at_utc") /\ IsTruthy(Get(rec, "ingested_at_utc")))
    THEN HardenTail(rec, out, totals)
    ELSE IF ParseToUtc(Get(rec, "ingested_at_utc"), "UTC").status = "ok"
    THEN Hardened(WithTime(out, ParseToUtc(Get(rec, "ingested_at_utc"), "UTC").t,
                           "ingested_at_utc", TRUE),
                  [totals EXCEPT !.timestamp_backfilled = @ + 1])
    ELSE IF ParseToUtc(Get(rec, "ingested_at_utc"), "UTC").status = "OverflowError"
    THEN HardenRaised(totals)
    ELSE HardenTail(rec, Put(out, "timestamp_error", StrVal("unparseable")),
                    [totals EXCEPT !.timestamp_parse_fail = @ + 1])

\* The candidate fields, tried in their order; try is the outcome of the loop.
HardenCandidates(rec, totals, try) ==
    IF try.status = "ok"
    THEN Hardened(WithTime(rec, try.t, try.f, FALSE), [totals EXCEPT !.timestamps_parsed_ok = @ + 1])
    ELSE IF try.status = "raised" THEN HardenRaised(totals)
    ELSE HardenBackfill(rec,
            Put(rec, "timestamp_error",
                StrVal(IF try.last_error = "out_of_range" THEN "out_of_range" ELSE "unparseable")),
            [totals EXCEPT !.timestamp_parse_fail = @ + 1])

\* harden_record
HardenRecord(rec, totals) ==
    IF AlreadyStrict(rec) THEN Hardened(rec, totals)
    ELSE IF ~HasAnyCandidates(rec, CandidateFields(SourceOf(rec)))
    THEN HardenBackfill(rec, rec, totals)
    ELSE HardenCandidates(rec, totals,
            TryFields(rec, CandidateFields(SourceOf(rec)), 1, SourceDefaults(SourceOf(rec)), ""))

-----------------------------------------------------------------------------
(* process_dir (normalize_enrich/timestamp_hardener.py)                      *)
(*                                                                           *)
(* A line of a *.norm.jsonl file is kept by what json.loads makes of it and  *)
(* by whether its text is the one json.dumps writes for that value (canon).  *)

MaxFiles == 2
MaxQueueLines == 3
MaxPasses == 2

\* A line of spaces.
SpaceLine == [kind |-> "blank", canon |-> FALSE, obj |-> FALSE, val |-> <<>>]

\* A line json.loads rejects.
JunkLine == [kind |-> "junk", canon |-> FALSE, obj |-> FALSE, val |-> <<>>]

\* A line of JSON that is no object, "[1, 2]".
ListLine == [kind |-> "json", canon |-> FALSE, obj |-> FALSE, val |-> <<>>]

\* A record as its producer wrote it, in a spelling of its own.
RawLine(rec) == [kind |-> "json", canon |-> FALSE, obj |-> TRUE, val |-> rec]

\* json.dumps(new_rec, ensure_ascii=False) + "\n"
DumpsLine(rec) == [kind |-> "json", canon |-> TRUE, obj |-> TRUE, val |-> rec]

\* The dict with the keys of the sequence pairs whose value is not None.
RECURSIVE DictOf(_)
DictOf(pairs) ==
    IF pairs = <<>> THEN <<>>
    ELSE IF pairs[Len(pairs)][2].form = "none" THEN DictOf(SubSeq(pairs, 1, Len(pairs) - 1))
    ELSE Append(DictOf(SubSeq(pairs, 1, Len(pairs) - 1)), pairs[Len(pairs)])

\* A normalized record: its source, two of the fields that may carry its time,
\* the time of its ingestion and the strict time it may already have.
NormRecord(source, published_at, pubDate, ingested_at_utc, event_datetime_utc) ==
    DictOf(<< <<"source", source>>, <<"published_at", published_at>>, <<"pubDate", pubDate>>,
              <<"ingested_at_utc", ingested_at_utc>>, <<"event_datetime_utc", event_datetime_utc>> >>)

\* Date-time strings of records: "2025-10-05 02:20"; one before the sanity
\* window, "1900-01-01T00:00:00Z"; one too near datetime.min for its offset,
\* "0001-01-01T00:00:00+05:00"; one that is no date; strict ones.
GoodStamp == IsoStamp(FALSE, "-", " ", FALSE, "", MinDt + 2, 0)
FarStamp == IsoStamp(FALSE, "-", "T", TRUE, "Z", DtMin + 2, 0)
OverStamp == IsoStamp(FALSE, "-", "T", TRUE, "+HH:MM", DtMin, 5)
BadStamp == StrVal("garbage")
StrictStamp == ToIsoUtc(MinDt + 3)
LooseStamp == IsoStamp(FALSE, "-", " ", TRUE, "", MinDt + 3, 0)

\* The records of the queue.
QueueRecords ==
    { NormRecord(StrVal("sec"), GoodStamp, NoneStamp, NoneStamp, NoneStamp),
      NormRecord(StrVal("pr"), NoneStamp, BadStamp, StrictStamp, NoneStamp),
      NormRecord(NoneStamp, FarStamp, NoneStamp, NoneStamp, NoneStamp),
      NormRecord(StrVal("sec"), GoodStamp, NoneStamp, NoneStamp, StrictStamp),
      NormRecord(StrVal("pr"), NoneStamp, OverStamp, NoneStamp, NoneStamp),
      NormRecord(StrVal("pr"), NoneStamp, BadStamp, NoneStamp, LooseStamp),
      NormRecord(NoneStamp, NoneStamp, NoneStamp, NoneStamp, NoneStamp) }

\* The lines of the queue.
HardenLines == {SpaceLine, JunkLine, ListLine} \cup {RawLine(rec) : rec \in QueueRecords}

\* The ways to cut n lines into k files: the index of the last line of each
\* file, the last file ending with the last line.
CutsOf(n, k) ==
    {c \in [1..k -> 0..n] : c[k] = n /\ \A j \in 1..(k - 1) : c[j] <= c[j + 1]}

\* The files the cuts c make of the lines ls.
FilesOf(ls, c) ==
    [j \in DOMAIN c |-> SubSeq(ls, (IF j = 1 THEN 0 ELSE c[j - 1]) + 1, c[j])]

\* The queue directories: at most max_files files of at most max_lines lines
\* in all, in the sorted order of their paths.
QueueSet(max_files, max_lines) ==
    {<<>>} \cup
    UNION { UNION { {FilesOf(ls, c) : c \in CutsOf(Len(ls), k)} : k \in 1..max_files } :
              ls \in SeqsUpTo(HardenLines, max_lines) }

\* harden: pc is where process_dir is, pass counts its calls, dry_run is the
\* argument of the call, path and i are the file and the line it is at, outf is
\* the temporary file, tmps counts the temporary files left behind, and first
\* is the queue as the first call left it (<<>> until then).
HardenStart ==
    [pc |-> "idle", pass |-> 0, dry_run |-> FALSE, path |-> 0, i |-> 0, outf |-> <<>>,
     totals |-> NoTotals, tmps |-> 0, first |-> <<>>]

\* The queue as the pass that is ending now leaves it, kept when it is the first.
FirstLeft(q) == IF harden.pass = 1 THEN q ELSE harden.first

\* process_dir(queue_dir, dry_run): the paths are listed, the first file is
\* opened.  No statement of the function reads dry_run.
ProcessDir ==
    /\ harden.pc \in {"idle", "returned", "raised"}
    /\ harden.pass < MaxPasses
    /\ \E dry_run \in BOOLEAN :
       harden' = [harden EXCEPT
                    !.pc = IF queue = <<>> THEN "returned" ELSE "reading",
                    !.pass = @ + 1,
                    !.dry_run = dry_run,
                    !.path = 1, !.i = 1, !.outf = <<>>,
                    !.totals = [NoTotals EXCEPT !.files = IF queue = <<>> THEN 0 ELSE 1],
                    !.first = IF harden.pass = 0 /\ queue = <<>> THEN queue ELSE @]
    /\ UNCHANGED <<queue, now, last, storeVars, hashVars, stageVars, fusionVars, sweepVars, parseVars>>

\* One turn of "for line in f" that ends with a write to the temporary file.
HardenLine ==
    /\ harden.pc = "reading"
    /\ harden.i <= Len(queue[harden.path])
    /\ \E line \in {queue[harden.path][harden.i]} :
         /\ \/ line.kind = "blank"
            \/ line.kind = "junk"
            \/ line.kind = "json" /\ line.obj
                 /\ ~HardenRecord(line.val, harden.totals).raised
         /\ harden' = [harden EXCEPT
               !.i = @ + 1,
               !.outf = Append(@, IF line.kind = "json"
                                  THEN DumpsLine(HardenRecord(line.val, harden.totals).rec)
                                  ELSE line),
               !.totals = IF line.kind = "blank" THEN @
                          ELSE IF line.kind = "junk" THEN [@ EXCEPT !.timestamp_parse_fail = @ + 1]
                          ELSE [HardenRecord(line.val, harden.totals).totals
                                  EXCEPT !.records = @ + 1]]
    /\ UNCHANGED <<queue, now, last, storeVars, hashVars, stageVars, fusionVars, sweepVars, parseVars>>

\* One turn that ends with an exception no handler catches: a JSON value that
\* is no object has no get, and parse_to_utc may raise OverflowError.  The
\* temporary file stays, the file and those after it are not replaced.
HardenRaise ==
    /\ harden.pc = "reading"
    /\ harden.i <= Len(queue[harden.path])
    /\ \E line \in {queue[harden.path][harden.i]} :
         /\ line.kind = "json"
         /\ ~line.obj \/ HardenRecord(line.val, harden.totals).raised
         /\ harden' = [harden EXCEPT
               !.pc = "raised",
               !.tmps = @ + 1,
               !.totals = [@ EXCEPT !.records = @ + 1],
               !.first = FirstLeft(queue)]
    /\ UNCHANGED <<queue, now, last, storeVars, hashVars, stageVars, fusionVars, sweepVars, parseVars>>

\* The end of a file: os.replace(tmp, path), then the next file or the return.
ReplaceFile ==
    /\ harden.pc = "reading"
    /\ harden.i > Len(queue[harden.path])
    /\ queue' = [queue EXCEPT ![harden.path] = harden.outf]
    /\ harden' = [harden EXCEPT
           !.pc = IF harden.path = Len(queue) THEN "returned" ELSE "reading",
           !.path = @ + 1, !.i = 1, !.outf = <<>>,
           !.totals = IF harden.path = Len(queue) THEN @ ELSE [@ EXCEPT !.files = @ + 1],
           !.first = IF harden.path = Len(queue) THEN FirstLeft(queue') ELSE @]
    /\ UNCHANGED <<now, last, storeVars, hashVars, stageVars, fusionVars, sweepVars, parseVars>>

InitHarden ==
    /\ now = InitNow
    /\ file = <<>>
    /\ NoStores /\ NoHashing /\ NoStage /\ NoFusion /\ NoSweep /\ NoParse
    /\ queue \in QueueSet(MaxFiles, MaxQueueLines)
    /\ harden = HardenStart

NextHarden == ProcessDir \/ HardenLine \/ HardenRaise \/ ReplaceFile

SpecHarden == InitHarden /\ [][NextHarden]_vars







-----------------------------------------------------------------------------
(* Properties of the dedupe store, checked under Spec *)

Constructed == last.op = "construct"
NewStore == stores[last.s]

FutureDated(h) ==
    \E i \in DOMAIN file :
        file[i].json /\ file[i].hash = h /\ FsValue(file[i]) # None /\ FsValue(file[i]) > now

LastLine == file[Len(file)]
Recorded == last.op = "record"

\* C5: inside the TTL window, every line record() appends for a fingerprint
\* carries the first_seen_utc of the fingerprint's first record(), in the file
\* and in memory, and its last_seen_utc is the time of this record() call.
C5_FirstSeenImmutable ==
    Recorded =>
        LET h == last.h
            rec == stores[last.s].active[ActiveIndex(stores[last.s].active, h)]
        IN /\ LastLine.hash = h
           /\ LastLine.fs = IsoFormat(track[h])
           /\ LastLine.ls = IsoFormat(now)
           /\ rec.first_seen_utc = track[h]
           /\ rec.last_seen_utc = now

\* A repeat record(): the line keeps an earlier first_seen_utc and a newer
\* last_seen_utc, after an earlier line of the same fingerprint.
C5_Witness ==
    /\ Recorded
    /\ track[last.h] < now
    /\ LastLine.ls = IsoFormat(now)
    /\ \E i \in 1..(Len(file) - 1) : file[i].hash = last.h /\ file[i].fs = LastLine.fs

\* C6 as stated: in every store instance, seen(fp) is FALSE for a fingerprint
\* whose record has now - first_seen_utc >= TTL (the lines of such a record do
\* stay in the file until compact(): record() only appends, see C7).
C6_AsStated ==
    \A s \in StoreIds :
        stores[s].alive =>
            \A i \in DOMAIN stores[s].active :
                now - stores[s].active[i].first_seen_utc >= stores[s].ttl
                    => ~Seen(s, stores[s].active[i].hash)

\* C7: a record() call appends exactly one line and leaves the lines already
\* in the file as they were.
C7_RecordAppendsOneLine ==
    [][last'.op = "record" =>
           /\ Len(file') = Len(file) + 1
           /\ SubSeq(file', 1, Len(file)) = file]_vars

\* A repeat record() has appended a second line for its fingerprint.
C7_Witness ==
    /\ Recorded
    /\ Cardinality({i \in DOMAIN file : file[i].hash = last.h}) >= 2

Compacted == last.op = "compact"

\* The records of a store's memory that compact() retains: those with
\* now - first_seen_utc < TTL at the time compact() read the clock.
Retained(s) ==
    {i \in DOMAIN stores[s].active :
        stores[s].cnow - stores[s].active[i].first_seen_utc < stores[s].ttl}

\* C8: after compact() the file holds exactly one line for each retained
\* fingerprint of the store's memory and no line for any other fingerprint.
C8_CompactKeepsActiveOnly ==
    Compacted =>
        LET act == stores[last.s].active
        IN /\ \A i \in Retained(last.s) :
                  Cardinality({j \in DOMAIN file : file[j].json /\ file[j].hash = act[i].hash}) = 1
           /\ \A j \in DOMAIN file :
                  file[j].json /\ \E i \in Retained(last.s) : act[i].hash = file[j].hash

\* compact() has dropped one record of the memory and kept another.
C8_Witness ==
    /\ Compacted
    /\ Retained(last.s) # {}
    /\ Retained(last.s) # DOMAIN stores[last.s].active

Compacting(s) == stores[s].pc = "compacting"

\* C9: from compact()'s first step to its last, a crash included, every step
\* leaves the state file as it was or puts the complete compacted file in
\* its place.
C9_CompactAtomic ==
    [][\A s \in StoreIds :
           (Compacting(s) \/ Compacting(s)') =>
               \/ file' = file
               \/ file' = CompactLines(stores[s].active, 1, stores[s].cnow, stores[s].ttl)]_vars

\* A crash inside compact() left a partly written temporary file beside a
\* state file that still holds more lines.
C9_Witness ==
    /\ last.op = "crash"
    /\ tmp.exists
    /\ tmp.lines # <<>>
    /\ Len(tmp.lines) < Len(file)

-----------------------------------------------------------------------------
(* Fingerprint equivalence *)

\* The upper-case form of a character.
Upper(c) ==
    CASE c = "a" -> "A" [] c = "b" -> "B" [] c = "i" -> "I" [] c = "DOTLESS_i" -> "I"
      [] c = "FW_a" -> "FW_A" [] OTHER -> c

AsciiChars == {"a", "A", "b", "B", "i", "I", " ", "\t"}

\* Two texts that differ only in letter case and in surrounding or repeated
\* whitespace.
TextAlike(t1, t2) ==
    MapSeq(Upper, Strip(CollapseWs(t1))) = MapSeq(Upper, Strip(CollapseWs(t2)))

\* ... both empty or both not, and written in ASCII.
TextAlikeAscii(t1, t2) ==
    /\ TextAlike(t1, t2)
    /\ (t1 = <<>>) <=> (t2 = <<>>)
    /\ \A i \in DOMAIN t1 : t1[i] \in AsciiChars
    /\ \A i \in DOMAIN t2 : t2[i] \in AsciiChars

\* A URL as written, before any decoding: scheme, userinfo, host, path, the query
\* fields that are tracking parameters and those that are not. A URL without a
\* scheme has its host before the first slash.
RawParts(u) ==
    LET p == UrlSplit(u)
        hasScheme == p.scheme # <<>>
        sl == FirstIndex(p.path, {"/"})
        auth == IF hasScheme THEN p.netloc
                ELSE IF sl = 0 THEN p.path ELSE Before(p.path, sl)
        at == FirstIndex(auth, {"@"})
        fields == ParseQsl(p.query)
    IN [scheme |-> p.scheme,
        auth |-> auth,
        user |-> IF at = 0 THEN <<>> ELSE Before(auth, at),
        host |-> MapSeq(Lower, IF at = 0 THEN auth ELSE After(auth, at)),
        path |-> IF hasScheme THEN p.path
                 ELSE IF sl = 0 THEN <<>> ELSE SubSeq(p.path, sl, Len(p.path)),
        kept |-> DropTrackers(fields),
        trackers |-> {fields[i] : i \in {k \in DOMAIN fields : IsTracker(fields[k][1])}}]

LeadingWww == <<"www", ".">>

\* Two URLs that differ only in tracking parameters, fragment, scheme or host
\* case, or a leading www. on the host.
UrlAlike(u1, u2) ==
    LET a == RawParts(u1)
        b == RawParts(u2)
    IN /\ a.scheme = b.scheme
       /\ a.user = b.user
       /\ a.host = b.host \/ a.host = LeadingWww \o b.host \/ b.host = LeadingWww \o a.host
       /\ a.path = b.path
       /\ a.kept = b.kept

Escapes == {"%23", "%26"}

\* ... where no tracking parameter holds an escaped # or &, a URL whose host
\* differs in case has a scheme, and a www. is added only to the host of a URL
\* with a scheme and no userinfo whose host does not begin with www. already.
UrlAlikeDecoded(u1, u2) ==
    LET a == RawParts(u1)
        b == RawParts(u2)
        short == IF Len(a.host) <= Len(b.host) THEN a.host ELSE b.host
    IN /\ UrlAlike(u1, u2)
       /\ \A f \in a.trackers \cup b.trackers :
              \A k \in 1..2 : \A i \in DOMAIN f[k] : f[k][i] \notin Escapes
       /\ \/ a.auth = b.auth
          \/ a.scheme # <<>> /\ a.host = b.host
          \/ /\ a.scheme # <<>>
             /\ a.user = <<>>
             /\ SubSeq(short, 1, 2) # LeadingWww

SameDates(e1, e2) ==
    /\ e1.event_datetime_utc = e2.event_datetime_utc
    /\ e1.filing_datetime = e2.filing_datetime
    /\ e1.pubDate = e2.pubDate

\* The first non-empty date field of the event parses.
Dated(e) ==
    LET raw == IF Truthy(e.event_datetime_utc) THEN e.event_datetime_utc
               ELSE IF Truthy(e.filing_datetime) THEN e.filing_datetime
               ELSE e.pubDate
    IN ParseDatetimeUtc(raw) # None

EventsAlike(e1, e2) ==
    /\ TextAlike(e1.source, e2.source)
    /\ TextAlike(e1.source_name, e2.source_name)
    /\ TextAlike(e1.title, e2.title)
    /\ TextAlike(e1.headline, e2.headline)
    /\ UrlAlike(FirstUrl(e1), FirstUrl(e2))
    /\ SameDates(e1, e2)

EventsAlikeDated(e1, e2) ==
    /\ TextAlikeAscii(e1.source, e2.source)
    /\ TextAlikeAscii(e1.source_name, e2.source_name)
    /\ TextAlikeAscii(e1.title, e2.title)
    /\ TextAlikeAscii(e1.headline, e2.headline)
    /\ UrlAlikeDecoded(FirstUrl(e1), FirstUrl(e2))
    /\ SameDates(e1, e2)
    /\ Dated(e1)

Hashed == hashes.pc = 2

\* C4 as stated: events that differ only in letter case, surrounding or repeated
\* whitespace, tracking parameters, fragment, scheme or host case, or a leading
\* www. get the same fingerprint.
C4_AsStated ==
    Hashed /\ EventsAlike(events[1], events[2]) => hashes.r1.hash = hashes.r2.hash

\* Where the equivalence does hold: two events get the same fingerprint when
\* they carry the same parseable date in their first non-empty date field and
\* differ only in the ASCII letter case or the surrounding or repeated whitespace
\* of a source or title that is non-empty in both, in tracking parameters that
\* hold no escaped # or &, in the fragment, in the case of the scheme or of the
\* host of a URL that has a scheme, or in a leading www. on the host of a URL
\* that has a scheme and no userinfo and whose host does not begin with www.
\* without it.
FingerprintsAgreeWhereDecoded ==
    Hashed /\ EventsAlikeDated(events[1], events[2]) => hashes.r1.hash = hashes.r2.hash

-----------------------------------------------------------------------------
(* Two runs of the stage over the same input *)

\* Run k read every input file to its end.
Done(k) == hist[k].status = "done"

\* The input lines a run emitted, or skipped as duplicates.
Positions(q) == {[f |-> q[j].f, i |-> q[j].i] : j \in DOMAIN q}

\* Run k + 1 was started with dedupe on less than the TTL after run k, which had
\* dedupe on too.
InSuccession(k) ==
    /\ hist[k].dedupe
    /\ hist[k + 1].dedupe
    /\ hist[k + 1].start - hist[k].start < DefaultTtlDays

\* The fingerprints a store loads from these lines at time t.
ActiveHashes(lines, t) ==
    LET active == LoadActive(lines, DefaultTtlDays, t)
    IN {active[j].hash : j \in DOMAIN active}

\* No record the state file held when run k started expires before run k + 1
\* starts.
NoneExpires(k) ==
    ActiveHashes(hist[k].pre, hist[k].start) \subseteq ActiveHashes(hist[k].pre, hist[k + 1].start)

\* Every event of the input carries a date that parses.
AllDated ==
    \A f \in DOMAIN inputs.files : \A i \in DOMAIN inputs.files[f] :
        inputs.files[f][i].json => Dated(inputs.files[f][i].d)

SkipsAll(k) ==
    /\ Positions(hist[k].emitted) \subseteq Positions(hist[k + 1].skipped)
    /\ hist[k + 1].emitted = <<>>

\* C2 as stated: for any input, a second run in succession skips every event the
\* first run emitted and writes no signal line.
C2_AsStated ==
    \A k \in 1..(Len(hist) - 1) : Done(k + 1) /\ InSuccession(k) => SkipsAll(k)

\* C2: for an input whose events all carry a parseable date, when the stage is
\* run twice with dedupe on, the same state file and a TTL of 7 days, the second
\* run starting less than 7 days after the first and no record of the state file
\* expiring between the two starts, the second run skips every event the first
\* run emitted and writes no signal line.
C2_SecondRunSkipsAll ==
    \A k \in 1..(Len(hist) - 1) :
        Done(k + 1) /\ InSuccession(k) /\ AllDated /\ NoneExpires(k) => SkipsAll(k)

\* Two finished runs a day apart: the first emitted, the second skipped the lot.
C2_Witness ==
    /\ Len(hist) = 2
    /\ Done(2)
    /\ InSuccession(1) /\ AllDated /\ NoneExpires(1)
    /\ hist[2].start > hist[1].start
    /\ Len(hist[1].emitted) = 2
    /\ Len(hist[2].skipped) = 2

\* One file of two identical events that carry a parseable date, pass the
\* watchlist gate and score at or above the threshold with a rule hit.
TwoIdenticalEvents ==
    /\ Len(inputs.files) = 1
    /\ Len(inputs.files[1]) = 2
    /\ inputs.files[1][1] = inputs.files[1][2]
    /\ LET line == inputs.files[1][1]
           d == line.d
           hits == HitTags(JoinText(d.title, d.body))
       IN /\ line.json
          /\ Dated(d)
          /\ inputs.watchlist.enabled => Allowed(inputs.watchlist, d)
          /\ ScoreHits(hits, d.event_kind, d.event_subtype) >= inputs.threshold
          /\ hits # <<>>

\* The state file holds no record of the event when the first run starts.
StartsUnseen ==
    MakeHash(inputs.files[1][1].d, hist[1].start).hash
        \notin {hist[1].pre[j].hash : j \in DOMAIN hist[1].pre}

EmitsFirstThenSecond(n1, n2) ==
    /\ Len(hist) >= 1 /\ Done(1) /\ hist[1].dedupe /\ StartsUnseen
       => Len(hist[1].emitted) = n1 /\ (Len(hist) = 1 => Len(outs[1]) = n1)
    /\ Len(hist) >= 2 /\ Done(2) /\ InSuccession(1) /\ StartsUnseen
       => Len(hist[2].emitted) = n2 /\ (Len(hist) = 2 => Len(outs[1]) = n2)

\* C3 as stated: two identical events run through the stage twice give 2 signal
\* lines in the first run and 0 in the second.
C3_AsStated == TwoIdenticalEvents => EmitsFirstThenSecond(2, 0)

\* C3: two identical events that carry a parseable date and pass the gates, run
\* through the stage twice with dedupe on over a shared state that holds no
\* record of them at first, give exactly 1 signal line in the first run (the
\* second event is skipped as a duplicate of the first) and exactly 0 in a second
\* run started less than the TTL after the first.
C3_OneThenNone == TwoIdenticalEvents => EmitsFirstThenSecond(1, 0)

\* Both runs done: one line emitted and one event skipped, then both skipped.
C3_Witness ==
    /\ TwoIdenticalEvents
    /\ Len(hist) = 2
    /\ Done(2)
    /\ InSuccession(1) /\ StartsUnseen
    /\ Len(hist[1].emitted) = 1 /\ Len(hist[1].skipped) = 1
    /\ hist[2].emitted = <<>> /\ Len(hist[2].skipped) = 2
    /\ outs[1] = <<>>

-----------------------------------------------------------------------------
(* The conviction of a fusion window *)

Fused == fused.pc = "done"

\* W = sum(base_score * weight) / sum(weight) over the signals of the window.
WeightedMean ==
    LET scores == [i \in DOMAIN window |-> ScoreSignal(window[i])]
        W(x) == x.weight
        BW(x) == x.base_score * x.weight
    IN Frac(SumOver(BW, scores), SumOver(W, scores))

AllAtLeastZero == \A i \in DOMAIN window : ScoreSignal(window[i]).sentiment >= 0
AllAtMostZero == \A i \in DOMAIN window : ScoreSignal(window[i]).sentiment <= 0
Aligned == AllAtLeastZero \/ AllAtMostZero

\* Two signals of this base score and of equal weight.
TwoOfBase(b) ==
    /\ Len(window) = 2
    /\ ScoreSignal(window[1]).base_score = b
    /\ ScoreSignal(window[2]).base_score = b
    /\ ScoreSignal(window[1]).weight = ScoreSignal(window[2]).weight

\* C10: the conviction before rounding is min(1.2 W, 100) for an aligned window
\* of more than one signal, 0.85 W for a conflicted one and W for a window of one
\* signal; two aligned signals of base 70 and equal weight give 84.0, two opposed
\* ones of base 80 and equal weight give 68.0 and MEDIUM.
C10_ConvictionFormula ==
    Fused =>
        /\ Aligned /\ Len(window) > 1
               => FEq(fused.fusion.weighted_score, FMin(FMul(WeightedMean, 12, 10), 100))
        /\ ~Aligned => FEq(fused.fusion.weighted_score, FMul(WeightedMean, 85, 100))
        /\ Len(window) = 1 => FEq(fused.fusion.weighted_score, WeightedMean)
        /\ TwoOfBase(70) /\ Aligned => fused.fusion.conviction_score = 840
        /\ TwoOfBase(80) /\ ~Aligned
               => fused.fusion.conviction_score = 680 /\ fused.fusion.conviction_level = "MEDIUM"

\* Two opposed signals of base 80 and equal weight, fused.
C10_Witness ==
    /\ Fused
    /\ TwoOfBase(80)
    /\ ~Aligned
    /\ fused.fusion.alignment = "conflicted"
    /\ fused.fusion.conviction_score = 680

\* The values conviction_level and alignment may take.
Levels == {"NEUTRAL", "LOW", "MEDIUM", "HIGH"}
Alignments == {"aligned", "conflicted"}

\* C11: every fused record has conviction_score in [0, 100] (in tenths: 0..1000),
\* net_sentiment in [-1, 1] (sentiments are in tenths: -10..10), conviction_level
\* in {NEUTRAL, LOW, MEDIUM, HIGH} and alignment in {aligned, conflicted}.
C11_AsStated ==
    Fused =>
        /\ fused.fusion.conviction_score >= 0
        /\ fused.fusion.conviction_score <= 1000
        /\ fused.fusion.net_sentiment.n >= -10 * fused.fusion.net_sentiment.d
        /\ fused.fusion.net_sentiment.n <= 10 * fused.fusion.net_sentiment.d
        /\ fused.fusion.conviction_level \in Levels
        /\ fused.fusion.alignment \in Alignments

-----------------------------------------------------------------------------
(* The windows of fuse_signals *)

\* fuse_signals is over: it returned its list, or an exception left it.
SweepOver == sweep.pc \in {"returned", "raised"}

\* The components of the windows fused for a ticker, in the order of the windows.
RECURSIVE ComponentsOf(_, _)
ComponentsOf(fusions, ticker) ==
    IF fusions = <<>> THEN <<>>
    ELSE (IF Head(fusions).ticker = ticker THEN Head(fusions).component_signals ELSE <<>>)
         \o ComponentsOf(Tail(fusions), ticker)

\* The time of a signal whose time field parses.
Parses(x) == ~ReadsClock(x)
FixedTime(x) == TimeField(signals.list[x]).t

\* q arranges the signals of group g by time, the unparseable ones aside.
TimeSorted(q, g) ==
    /\ Len(q) = Len(sweep.by_ticker[g].members)
    /\ {q[p] : p \in DOMAIN q} = {sweep.by_ticker[g].members[p] : p \in DOMAIN q}
    /\ \A a \in DOMAIN q, b \in DOMAIN q :
           a < b /\ Parses(q[a]) /\ Parses(q[b]) => FixedTime(q[a]) <= FixedTime(q[b])

\* The window w is a run of q: it starts at its anchor, holds only signals within
\* window_hours of the anchor, and every later signal of q within that time.
IsRun(w, q) ==
    /\ w.num_signals = Len(w.component_signals)
    /\ w.num_signals >= 1
    /\ Parses(w.component_signals[1]) => w.window_start = FixedTime(w.component_signals[1])
    /\ w.window_end = w.window_start + signals.window_hours
    /\ \A p \in DOMAIN w.component_signals :
           Parses(w.component_signals[p]) => FixedTime(w.component_signals[p]) <= w.window_end
    /\ \A a \in DOMAIN q, b \in DOMAIN q :
           /\ a < b /\ q[a] = w.component_signals[1] /\ Parses(q[b])
           /\ FixedTime(q[b]) <= w.window_end
           => \E p \in DOMAIN w.component_signals : w.component_signals[p] = q[b]

\* The windows of the group g partition its time-sorted signals into runs.
PartitionsGroup(g) ==
    /\ g \in DOMAIN sweep.order
    /\ TimeSorted(sweep.order[g], g)
    /\ ComponentsOf(sweep.fused, sweep.by_ticker[g].ticker) = sweep.order[g]
    /\ \A k \in DOMAIN sweep.fused :
           sweep.fused[k].ticker = sweep.by_ticker[g].ticker
           => IsRun(sweep.fused[k], sweep.order[g])

\* C12: when fuse_signals is over, the windows of every ticker partition its
\* time-sorted signals into consecutive runs, each run being the anchor and the
\* following signals within window_hours of it, every signal that carries a
\* ticker is a component of exactly one window, and num_signals is the length
\* of the run.
C12_AsStated ==
    SweepOver =>
        /\ \A x \in DOMAIN signals.list :
               TickerOf(signals.list[x]) # ""
               => \E g \in DOMAIN sweep.by_ticker :
                     /\ sweep.by_ticker[g].ticker = TickerOf(signals.list[x])
                     /\ \E p \in DOMAIN sweep.by_ticker[g].members :
                           sweep.by_ticker[g].members[p] = x
        /\ \A g \in DOMAIN sweep.by_ticker : PartitionsGroup(g)

\* The same of the calls that return and read the clock for no signal.
WindowsPartitionWhereReturned ==
    sweep.pc = "returned" /\ (\A x \in DOMAIN signals.list : Parses(x))
    => \A g \in DOMAIN sweep.by_ticker : PartitionsGroup(g)

-----------------------------------------------------------------------------
(* The sanity window of parse_to_utc *)

\* The string is one parse_to_utc can read.
Readable(s) ==
    s.form \in {"iso", "rfc"}
      /\ (FromIsoformat(NormalizeCandidate(StripStamp(s))).ok \/ ParsedateToDatetime(StripStamp(s)).ok)

\* The datetime read from a readable string, before its conversion to UTC.
ReadDatetime(s, naive_tz) ==
    IF FromIsoformat(NormalizeCandidate(StripStamp(s))).ok
    THEN Localize(FromIsoformat(NormalizeCandidate(StripStamp(s))), naive_tz)
    ELSE Localize(ParsedateToDatetime(StripStamp(s)), naive_tz)

\* The UTC instant a readable string parses to.
InstantOf(s, naive_tz) == ReadDatetime(s, naive_tz).t - ReadDatetime(s, naive_tz).off

\* The input is empty (or only spaces) or absent.
EmptyOrAbsent(s) == s.form = "none" \/ (s.form = "text" /\ s.tz = "")

\* C16: parse_to_utc returns only UTC instants t with MinDt <= t < MaxDt; an
\* input that parses to an instant outside that range fails with out_of_range,
\* and an empty or absent input fails with missing.
C16_AsStated ==
    parsed.pc # "start" =>
        /\ parsed.out.status = "ok" => MinDt <= parsed.out.t /\ parsed.out.t < MaxDt
        /\ (Readable(stamp.s) /\ ~InWindow(InstantOf(stamp.s, stamp.naive_tz)))
              => parsed.out.status = "out_of_range"
        /\ EmptyOrAbsent(stamp.s) => parsed.out.status = "missing"

\* Where the instant is one a datetime can hold, the three parts of C16 hold.
RangeCheckedWhereRepresentable ==
    parsed.pc # "start" =>
        /\ parsed.out.status = "ok" => MinDt <= parsed.out.t /\ parsed.out.t < MaxDt
        /\ (Readable(stamp.s) /\ ~InWindow(InstantOf(stamp.s, stamp.naive_tz))
              /\ InstantOf(stamp.s, stamp.naive_tz) \in DtMin..DtMax)
              => parsed.out.status = "out_of_range"
        /\ EmptyOrAbsent(stamp.s) => parsed.out.status = "missing"

-----------------------------------------------------------------------------
(* The round trip of the spellings of an instant *)

\* The instants of the sanity window.
WindowInstants == {u \in DtMin..DtMax : InWindow(u)}

\* The strict string of the UTC instant u.
StrictZ(u) ==
    [form |-> "iso", pad |-> FALSE, date_sep |-> "-", dt_sep |-> "T", secs |-> TRUE,
     tz |-> "Z", t |-> u, off |-> 0]

\* s is a date-time in one of the supported spellings: ISO-like or RFC-2822,
\* with its zone written out or, failing that, with an IANA zone as the hint.
SupportedSpelling(s, naive_tz) ==
    /\ s.form \in {"iso", "rfc"}
    /\ s.dt_sep # ""
    /\ s.tz = "" => naive_tz \in Zones

\* s, read with the hint naive_tz, spells the instant u: u is its wall time less
\* its offset or, without an offset, the hinted zone shows its wall time at u.
Spells(s, naive_tz, u) ==
    /\ SupportedSpelling(s, naive_tz)
    /\ IF s.tz = "" THEN s.t = u + ZoneOffsetAtInstant(naive_tz, u) ELSE s.t - s.off = u

\* The hinted zone shows the wall time of the naive string s at two instants.
RepeatedWallTime(s, naive_tz) ==
    /\ s.tz = ""
    /\ \E u1, u2 \in (DtMin - 5)..(DtMax + 5) :
          /\ u1 # u2
          /\ s.t = u1 + ZoneOffsetAtInstant(naive_tz, u1)
          /\ s.t = u2 + ZoneOffsetAtInstant(naive_tz, u2)

\* The call and the formatting after it are over.
ParseOver == parsed.pc \in {"raised", "formatted"}

\* C19 as the specification states it: for each supported spelling s of an
\* instant u (of the sanity window), to_iso_utc(parse_to_utc(s)) returns the
\* strict string of u.
C19_AsStated ==
    \A u \in WindowInstants :
        ParseOver /\ Spells(stamp.s, stamp.naive_tz, u)
        => parsed.pc = "formatted" /\ parsed.iso = StrictZ(u)

\* C19, amended: for each supported spelling s of an instant u of the sanity
\* window, to_iso_utc(parse_to_utc(s)) returns the strict string of u, unless s
\* is a naive date-time whose wall time the hinted zone shows twice (the hour
\* repeated when its clocks go back), or an RFC-2822 string with the offset
\* -0000.
C19_RoundTrip ==
    \A u \in WindowInstants :
        /\ ParseOver
        /\ Spells(stamp.s, stamp.naive_tz, u)
        /\ ~RepeatedWallTime(stamp.s, stamp.naive_tz)
        /\ ~(stamp.s.form = "rfc" /\ stamp.s.tz = "-0000")
        => parsed.pc = "formatted" /\ parsed.iso = StrictZ(u)

\* A naive date-time without seconds, its date and time apart by a space, read
\* with the New York hint during daylight time, has made the round trip.
C19_Witness ==
    /\ parsed.pc = "formatted"
    /\ stamp.naive_tz = "America/New_York"
    /\ stamp.s.form = "iso" /\ stamp.s.tz = "" /\ stamp.s.dt_sep = " " /\ ~stamp.s.secs
    /\ parsed.iso = StrictZ(stamp.s.t + 4)
    /\ Spells(stamp.s, stamp.naive_tz, stamp.s.t + 4)

-----------------------------------------------------------------------------
(* The hardening pass run twice *)

\* The lines written so far in place of the lines of the file being read keep
\* the records that were strict already.
StrictKept ==
    (harden.pc \in {"reading", "raised"} /\ harden.path \in DOMAIN queue)
    => \A k \in DOMAIN harden.outf :
          (/\ queue[harden.path][k].kind = "json"
           /\ queue[harden.path][k].obj
           /\ AlreadyStrict(queue[harden.path][k].val))
          => harden.outf[k].val = queue[harden.path][k].val

\* C13: a second run of process_dir over the files a first run produced leaves
\* every file byte-identical, at its end and at every step on the way, and a
\* record whose event_datetime_utc is already strict is written back with no
\* field added, removed or changed.
C13_Idempotent ==
    /\ harden.pass >= 2 => queue = harden.first
    /\ StrictKept

\* The line is a record that the first run marked with an error and left
\* without a strict time, so that the second run hardens it anew.
MarkedLine(line) ==
    /\ line.kind = "json" /\ line.obj /\ line.canon
    /\ ~AlreadyStrict(line.val)
    /\ HasKey(line.val, "timestamp_error")

\* The line is a record that came strict and that no run has touched.
UntouchedLine(line) ==
    /\ line.kind = "json" /\ line.obj
    /\ AlreadyStrict(line.val)
    /\ ~HasKey(line.val, "timestamp_source")

\* The second run has returned over a queue that holds a record hardened anew
\* and a record that came strict.
C13_Witness ==
    /\ harden.pass = 2 /\ harden.pc = "returned"
    /\ \E p \in DOMAIN queue : \E k \in DOMAIN queue[p] : MarkedLine(queue[p][k])
    /\ \E p \in DOMAIN queue : \E k \in DOMAIN queue[p] : UntouchedLine(queue[p][k])

-----------------------------------------------------------------------------
(* A bad line in a batch stage *)

\* C14, for the signal-detection stage: a bad input line is skipped and every
\* other line is still processed, so no line stops a run with lines of its file,
\* or files after it, unread.
C14_AsStated ==
    ~(/\ last.op = "abort"
      /\ run.i < Len(inputs.files[run.f]) \/ run.f < Len(inputs.files))

\* The same for the hardening pass: no line stops process_dir with lines of its
\* file, or files after it, unread.
HardenPassNeverCutShort ==
    ~(/\ harden.pc = "raised"
      /\ harden.i < Len(queue[harden.path]) \/ harden.path < Len(queue))

\* The lines of the hardening pass that are blank or not JSON are passed through
\* as they are.
BadLinesPassedThrough ==
    (harden.pc \in {"reading", "raised"} /\ harden.path \in DOMAIN queue)
    => \A k \in DOMAIN harden.outf :
          queue[harden.path][k].kind \in {"blank", "junk"}
          => harden.outf[k] = queue[harden.path][k]

-----------------------------------------------------------------------------
(* Malformed lines in the backing file *)

\* A line that is not JSON, or that lacks hash or first_seen_utc.
Unusable(line) == ~line.json \/ line.hash = NoHash \/ line.fs.kind = "absent"

\* A malformed line as C15 counts them: the unusable ones and those whose
\* first_seen_utc is not a parseable timestamp.
Malformed(line) == Unusable(line) \/ ParseDatetimeUtc(line.fs) = None

\* The lines of the file that are not malformed, and those that are not unusable.
RECURSIVE WithoutMalformed(_)
WithoutMalformed(lines) ==
    IF lines = <<>> THEN <<>>
    ELSE IF Malformed(Head(lines)) THEN WithoutMalformed(Tail(lines))
    ELSE <<Head(lines)>> \o WithoutMalformed(Tail(lines))

RECURSIVE WithoutUnusable(_)
WithoutUnusable(lines) ==
    IF lines = <<>> THEN <<>>
    ELSE IF Unusable(Head(lines)) THEN WithoutUnusable(Tail(lines))
    ELSE <<Head(lines)>> \o WithoutUnusable(Tail(lines))

-----------------------------------------------------------------------------
(* The URL of the fingerprint *)

\* The URL by the precedence of C17: first_url if non-empty, else urls[0] if
\* urls is a non-empty list, else url, else the empty string.
StatedUrl(event) ==
    IF event.first_url # <<>> THEN event.first_url
    ELSE IF event.urls # <<>> THEN event.urls[1]
    ELSE event.url

\* The same, urls[0] counting only when it is non-empty itself.
ChosenUrl(event) ==
    IF event.first_url # <<>> THEN event.first_url
    ELSE IF event.urls # <<>> /\ event.urls[1] # <<>> THEN event.urls[1]
    ELSE event.url

\* C17 as the specification states it: the URL of the key is the canonical form
\* of the URL chosen by the stated precedence.
C17_AsStated ==
    /\ hashes.pc >= 1 => hashes.r1.key.url = NormalizeUrl(StatedUrl(events[1]))
    /\ hashes.pc >= 2 => hashes.r2.key.url = NormalizeUrl(StatedUrl(events[2]))

\* C17, amended: the URL of the key is the canonical form of first_url if
\* non-empty, else of urls[0] if urls is a non-empty list whose first element is
\* non-empty, else of url, else the empty string; with all three populated it
\* is first_url's.
C17_UrlPrecedence ==
    /\ hashes.pc >= 1 => hashes.r1.key.url = NormalizeUrl(ChosenUrl(events[1]))
    /\ hashes.pc >= 2 => hashes.r2.key.url = NormalizeUrl(ChosenUrl(events[2]))

\* make_hash has run on an event with three different URLs in first_url, urls
\* and url, and then on one with only urls and url.
C17_Witness ==
    /\ hashes.pc = 2
    /\ events[1].first_url = TrackedUrl /\ events[1].urls = <<OtherUrl, ThirdUrl>>
    /\ events[1].url = ThirdUrl
    /\ hashes.r1.key.url = FixedUrl
    /\ events[2].first_url = <<>> /\ events[2].urls = <<OtherUrl>> /\ events[2].url = ThirdUrl
    /\ hashes.r2.key.url = OtherUrl

-----------------------------------------------------------------------------
(* Dedupe at the point of emission *)

\* The line the stage is about to read.
LineAtHand == inputs.files[run.f][run.i]

\* The event of the line at hand passes the watchlist gate, when one is enabled,
\* and scores at or above the threshold with at least one rule hit.
WouldEmit ==
    /\ LineAtHand.json
    /\ inputs.watchlist.enabled => Allowed(inputs.watchlist, LineAtHand.d)
    /\ HitTags(JoinText(LineAtHand.d.title, LineAtHand.d.body)) # <<>>
    /\ ScoreHits(HitTags(JoinText(LineAtHand.d.title, LineAtHand.d.body)),
                 LineAtHand.d.event_kind, LineAtHand.d.event_subtype) >= inputs.threshold

\* The step is one turn of the loop over the lines.
LineStep == last'.op \in {"blank", "abort", "unwatched", "low", "dupe", "emit"}

\* C18: in one turn of the loop, make_hash is called (the turn has a
\* fingerprint) and the state file grows only for an event that passes the gate
\* and the threshold with a rule hit; the file grows only when the event is
\* emitted with dedupe enabled, and a turn that filters the event out, finds it
\* below the threshold or skips it as a duplicate leaves the state file as it is.
C18_HashOnlyAtEmission ==
    [][LineStep =>
          /\ last'.h # NoHash => WouldEmit
          /\ file' # file => WouldEmit /\ last'.op = "emit" /\ run.dedupe
          /\ last'.op \in {"unwatched", "low", "dupe"} => file' = file /\ stores'[1] = stores[1]
      ]_vars

\* In a run with dedupe an event has been emitted and recorded, and now a later
\* event has been found below the threshold.
C18_Witness ==
    /\ last.op = "low"
    /\ run.dedupe
    /\ hist[run.n].emitted # <<>>
    /\ file # hist[run.n].pre

-----------------------------------------------------------------------------
(* Records without a usable time *)

\* The string is a timestamp parse_to_utc returns an instant for.
UsableStamp(v, naive_tz) == IsTruthy(v) /\ ParseToUtc(v, naive_tz).status = "ok"

\* The record has a usable timestamp in a candidate field of its source, or a
\* usable ingested_at_utc.
HasUsableTime(rec) ==
    \/ \E i \in DOMAIN CandidateFields(SourceOf(rec)) :
          UsableStamp(Get(rec, CandidateFields(SourceOf(rec))[i]), SourceDefaults(SourceOf(rec)))
    \/ UsableStamp(Get(rec, "ingested_at_utc"), "UTC")

\* The record is marked with an error and has no event_datetime_utc.
MarkedOnly(rec) == HasKey(rec, "timestamp_error") /\ ~HasKey(rec, "event_datetime_utc")

\* A call of process_dir is over.
PassOver == harden.pass >= 1 /\ harden.pc \in {"returned", "raised"}

\* C20: after the hardening pass every record of the queue without a usable
\* timestamp in its candidate fields and without a usable ingested_at_utc
\* carries timestamp_error and has no event_datetime_utc.
C20_AsStated ==
    PassOver =>
        \A p \in DOMAIN queue : \A k \in DOMAIN queue[p] :
            (queue[p][k].kind = "json" /\ queue[p][k].obj /\ ~HasUsableTime(queue[p][k].val))
            => MarkedOnly(queue[p][k].val)

\* The same of the records that came without event_datetime_utc, after a pass
\* that returned.
MarkedWhereReturned ==
    (harden.pass >= 1 /\ harden.pc = "returned") =>
        \A p \in DOMAIN queue : \A k \in DOMAIN queue[p] :
            (/\ queue[p][k].kind = "json" /\ queue[p][k].obj
             /\ ~HasUsableTime(queue[p][k].val)
             /\ Get(queue[p][k].val, "event_datetime_utc") \notin {StrictStamp, LooseStamp})
            => MarkedOnly(queue[p][k].val)

-----------------------------------------------------------------------------
(* C21: a dry run leaves the files alone                                     *)

\* C21 as stated: while a call of process_dir with dry_run=True is under way,
\* no step changes a file of the queue directory.
C21_AsStated ==
    [][harden.dry_run => queue' = queue]_vars

\* What holds of the code: the end of a file replaces it by the temporary
\* file whatever dry_run is; only a file the call never finished is left as it
\* was.
ReplacedWhateverDryRun ==
    [][harden.pc = "reading" /\ harden.i > Len(queue[harden.path])
         => queue' = [queue EXCEPT ![harden.path] = harden.outf]]_vars

-----------------------------------------------------------------------------
(* C22: the ranges of score_signal *)

\* The signal of the window that the i-th score was made of, and the weight
\* score_signal gives it before the scale of the insider cluster: the scale
\* is 1 for a cluster of three insiders.
ScoredSignal(i) == window[i]
UnscaledWeight(signal) == ScoreSignal([signal EXCEPT !.num_insiders = 3]).weight

\* C22: every score has base_score in [0, 100], weight in [0.5, 2.0] (in
\* hundredths: 50..200) and sentiment in [-1, 1] (in tenths: -10..10), and the
\* weight of an insider cluster is its unscaled weight raised by at most 50%.
C22_AsStated ==
    \A i \in DOMAIN fused.scored :
        /\ fused.scored[i].base_score >= 0 /\ fused.scored[i].base_score <= 100
        /\ fused.scored[i].weight >= 50 /\ fused.scored[i].weight <= 200
        /\ fused.scored[i].sentiment >= -10 /\ fused.scored[i].sentiment <= 10
        /\ ScoredSignal(i).signal_type = "insider_cluster"
              => /\ fused.scored[i].weight >= UnscaledWeight(ScoredSignal(i))
                 /\ 2 * fused.scored[i].weight <= 3 * UnscaledWeight(ScoredSignal(i))

\* What holds of the code: the sentiment is always in range, the base score is
\* at most 100 and is at least 0 unless the buzz is negative, the weight is in
\* range unless the signal is an insider cluster, and the scale of a cluster
\* of three insiders or more raises the weight by at most 50%.
ScoredInRangeApartFromClusters ==
    \A i \in DOMAIN fused.scored :
        /\ fused.scored[i].sentiment >= -10 /\ fused.scored[i].sentiment <= 10
        /\ fused.scored[i].base_score <= 100
        /\ ScoredSignal(i).buzz_score >= 0 => fused.scored[i].base_score >= 0
        /\ ScoredSignal(i).signal_type # "insider_cluster"
              => fused.scored[i].weight >= 50 /\ fused.scored[i].weight <= 200
        /\ ScoredSignal(i).signal_type = "insider_cluster" /\ ScoredSignal(i).num_insiders >= 3
              => /\ fused.scored[i].weight >= UnscaledWeight(ScoredSignal(i))
                 /\ 2 * fused.scored[i].weight <= 3 * UnscaledWeight(ScoredSignal(i))

-----------------------------------------------------------------------------
(* C23: the progress of the window sweep *)

\* C23: every iteration of the while loop of fuse_signals moves i forward by
\* at least one signal, the anchor, so the sweep of a group ends after at most
\* as many iterations as the group has signals.
C23_AsStated ==
    [][sweep.pc = "fuse" => sweep'.i > sweep.i]_vars

\* What holds of the code: the iteration moves i forward when the time field
\* of the anchor parses, since then both readings of its time agree.
ConsumesWhereAnchorParses ==
    [][sweep.pc = "fuse" /\ ~ReadsClock(sweep.ticker_signals[sweep.i + 1])
         => sweep'.i > sweep.i]_vars

-----------------------------------------------------------------------------
(* C24: fuse_signals and the time fields *)

\* C24: fuse_signals never raises, whatever the time fields of the signals
\* hold.
C24_AsStated ==
    sweep # <<>> => sweep.pc # "raised"

\* The time strings of the group g are of one kind: all of them carry a UTC
\* offset or fail to parse (and are read off the clock, with an offset), or
\* none carries one.
OneKind(g) ==
    \A a \in DOMAIN sweep.by_ticker[g].members, b \in DOMAIN sweep.by_ticker[g].members :
        TimeOfSignal(sweep.by_ticker[g].members[a]).aware
          = TimeOfSignal(sweep.by_ticker[g].members[b]).aware

\* What holds of the code: it raises only for a list with a ticker group that
\* mixes the two kinds.
RaisesOnlyWhereMixed ==
    (sweep # <<>> /\ sweep.pc = "raised") => \E g \in DOMAIN sweep.by_ticker : ~OneKind(g)

-----------------------------------------------------------------------------
(* C25: the level and the score of a fused record *)

\* The bucket of a conviction_score, kept in tenths.
BucketOf(conviction_score) ==
    IF conviction_score >= 800 THEN "HIGH"
    ELSE IF conviction_score >= 650 THEN "MEDIUM"
    ELSE IF conviction_score >= 500 THEN "LOW"
    ELSE "NEUTRAL"

\* C25 as stated: conviction_level is the bucket of the record's own
\* conviction_score.
C25_AsStated ==
    Fused => fused.fusion.conviction_level = BucketOf(fused.fusion.conviction_score)

\* C25: conviction_level is the bucket of the conviction before it is rounded
\* to one decimal, so it is the bucket of the record's conviction_score unless
\* that score is exactly 80.0, 65.0 or 50.0, which may carry the level below.
C25_LevelBeforeRounding ==
    Fused =>
        /\ fused.fusion.conviction_level
              \in FloatLevels(fused.fusion.weighted_score, fused.fusion.num_signals)
        /\ \/ fused.fusion.conviction_level = BucketOf(fused.fusion.conviction_score)
           \/ /\ fused.fusion.conviction_score \in {800, 650, 500}
              /\ fused.fusion.conviction_level = BucketOf(fused.fusion.conviction_score - 1)

\* A conflicted window fused with the score 65.0 and the level LOW: its
\* conviction before rounding is under 65.
C25_Witness ==
    /\ Fused
    /\ fused.fusion.conviction_score = 650
    /\ fused.fusion.conviction_level = "LOW"
    /\ ~FGe(fused.fusion.weighted_score, 65)

-----------------------------------------------------------------------------
(* C26: two stores on one backing file *)

\* Two processes each hold a SeenStore on the same state file and nothing
\* keeps one from acting between two operations of the other, or between the
\* steps of its compact().  Both compact through the same temporary path, so
\* this specification has one compact() under way at a time.
SharedCompactOpen(s) ==
    /\ \A o \in StoreIds : stores[o].pc = "idle"
    /\ CompactOpen(s)

MaxSharedTime == 2      \* the clock of the two processes stops advancing here

\* The TTL both processes are configured with.
SharedTtl == {2}

\* Time passes.
SharedTick ==
    /\ now < MaxSharedTime
    /\ Tick

InitShared ==
    /\ now = InitNow
    /\ file = <<>>
    /\ NoStores
    /\ NoHashing /\ NoStage /\ NoFusion /\ NoSweep /\ NoHarden /\ NoParse

NextShared ==
    \/ \E s \in StoreIds, ttl \in SharedTtl : Construct(s, ttl)
    \/ \E s \in StoreIds, h \in FPs : Record(s, h)
    \/ \E s \in StoreIds : SharedCompactOpen(s)
    \/ \E s \in StoreIds : CompactWrite(s)
    \/ \E s \in StoreIds : CompactReplace(s)
    \/ SharedTick

SpecShared == InitShared /\ [][NextShared]_vars

\* The file has a line for the fingerprint h.
HasLine(h) == \E j \in DOMAIN file : file[j].json /\ file[j].hash = h

\* C26: compact() by one store rewrites the file from its own memory, so
\* after it no line is left for a fingerprint that memory lacks, whatever
\* another store has appended, and a store constructed from the file then
\* answers seen = false for it whatever its TTL.
C26_CompactDropsOthersLines ==
    Compacted =>
        \A h \in FPs :
            ~Seen(last.s, h) =>
                /\ ~HasLine(h)
                /\ \A ttl \in TtlChoices : ~SeenIn(LoadActive(file, ttl, now), h)

\* The loss: a fingerprint the other store recorded, still within the TTL of
\* both stores and seen by the other, has no line after this store's
\* compact(), and a store constructed now does not see it.
C26_Witness ==
    /\ Compacted
    /\ \E h \in FPs, o \in StoreIds :
          /\ o # last.s /\ stores[o].alive /\ Seen(o, h)
          /\ fresh[h].fs # None
          /\ now - fresh[h].fs < stores[last.s].ttl
          /\ now - fresh[h].fs < stores[o].ttl
          /\ ~Seen(last.s, h)
          /\ ~HasLine(h)
          /\ ~SeenIn(LoadActive(file, stores[o].ttl, now), h)

-----------------------------------------------------------------------------
(* C27: a signal line lasts until the next run *)

\* Run k is over: it finished, or an exception ended it.
RunOver(k) == hist[k].status # "running"

\* The event at an input position and the signal line the stage writes for it.
EventAt(at) == inputs.files[at.f][at.i].d
EmittedLine(at) ==
    SignalLine(EventAt(at),
               ScoreHits(HitTags(JoinText(EventAt(at).title, EventAt(at).body)),
                         EventAt(at).event_kind, EventAt(at).event_subtype),
               HitTags(JoinText(EventAt(at).title, EventAt(at).body)))

\* The signal lines run k wrote for the input file f, in the order it wrote them.
LinesOf(k, f) ==
    LET mine == SelectSeq(hist[k].emitted, LAMBDA at : at.f = f)
    IN [j \in DOMAIN mine |-> EmittedLine(mine[j])]

\* The signals files hold what the latest run wrote and nothing else.
Rewritten ==
    Len(hist) >= 1 /\ RunOver(Len(hist))
    => \A f \in DOMAIN outs : outs[f] = LinesOf(Len(hist), f)

\* The line run k emitted at this position is not emitted again by run k + 1
\* and, once run k + 1 is the latest run, is in no signals file.
GoneAfterNext(k, at) ==
    /\ [f |-> at.f, i |-> at.i] \notin Positions(hist[k + 1].emitted)
    /\ Len(hist) = k + 1
       => \A f \in DOMAIN outs : \A j \in DOMAIN outs[f] : outs[f][j] # EmittedLine(at)

\* C27 as stated: every run rewrites the signals files, and after a second run
\* in succession over the same input no line the first run emitted is in a
\* signals file or emitted again.
C27_AsStated ==
    /\ Rewritten
    /\ \A k \in 1..(Len(hist) - 1) :
           RunOver(k + 1) /\ InSuccession(k)
           => \A j \in DOMAIN hist[k].emitted : GoneAfterNext(k, hist[k].emitted[j])

\* C27: the same of the lines the first run emitted for events that carry a
\* date that parses.
C27_EmittedGoneNextRun ==
    /\ Rewritten
    /\ \A k \in 1..(Len(hist) - 1) :
           RunOver(k + 1) /\ InSuccession(k)
           => \A j \in DOMAIN hist[k].emitted :
                 Dated(EventAt(hist[k].emitted[j])) => GoneAfterNext(k, hist[k].emitted[j])

\* Two runs a day apart: the first wrote a line for a dated event, the second
\* truncated the signals files and wrote none.
C27_Witness ==
    /\ Len(hist) = 2
    /\ RunOver(2)
    /\ InSuccession(1)
    /\ hist[2].start > hist[1].start
    /\ \E j \in DOMAIN hist[1].emitted : Dated(EventAt(hist[1].emitted[j]))
    /\ hist[2].emitted = <<>>
    /\ \A f \in DOMAIN outs : outs[f] = <<>>

-----------------------------------------------------------------------------
(* C28: the date of a fingerprint *)

\* make_hash has been called twice on one and the same event.
HashedTwice == hashes.pc = 2 /\ events[1] = events[2]

\* The store of a process that recorded the first fingerprint does not see the
\* second.
NotSuppressed ==
    ~SeenIn(RecordUpsert(<<>>, hashes.r1.hash, hashes.r1.key, now), hashes.r2.hash)

-----------------------------------------------------------------------------
(* C29: compact() and the memory of the store *)

\* The step is one of compact().
CompactStep == last'.op \in {"compact_open", "compact_write", "compact"}

\* The fingerprints of the store's memory that compact() left out of the file.
Dropped(s) ==
    {stores[s].active[i].hash : i \in DOMAIN stores[s].active \ Retained(s)}

\* C29: no step of compact() changes the in-memory active set of the calling
\* store, so its seen() answers after compact() are those from before, also
\* for the records compact() dropped from the file as expired; a store
\* constructed from the compacted file does not see those.
C29_CompactLeavesMemory ==
    [][CompactStep =>
          /\ stores'[last'.s].active = stores[last'.s].active
          /\ \A h \in FPs : SeenIn(stores'[last'.s].active, h) = Seen(last'.s, h)
          /\ last'.op = "compact" =>
                \A h \in Dropped(last'.s) :
                    /\ SeenIn(stores'[last'.s].active, h)
                    /\ ~SeenIn(LoadActive(file', stores[last'.s].ttl, now'), h)]_vars

\* compact() has dropped an expired record from the file: the store still
\* sees its fingerprint, a store constructed now would not.
C29_Witness ==
    /\ Compacted
    /\ Dropped(last.s) # {}
    /\ \A h \in Dropped(last.s) :
          Seen(last.s, h) /\ ~SeenIn(LoadActive(file, stores[last.s].ttl, now), h)

-----------------------------------------------------------------------------
(* C30: the fingerprints of the lines of one run *)

\* The fingerprints run k computed for the lines it emitted.
EmittedHashes(k) == {hist[k].emitted[a].h : a \in DOMAIN hist[k].emitted}

\* C30: in a run with dedupe on no two emitted lines, of whatever input
\* files, were emitted under the same fingerprint; while the run goes on, the
\* fingerprint of every line it has emitted is in the in-memory set of its
\* store, and an event skipped as a duplicate is counted once.
C30_NoTwoEmittedAlike ==
    \A k \in DOMAIN hist :
        hist[k].dedupe =>
            /\ \A a \in DOMAIN hist[k].emitted, b \in DOMAIN hist[k].emitted :
                   a # b => hist[k].emitted[a].h # hist[k].emitted[b].h
            /\ (k = Len(hist) /\ hist[k].status = "running")
                   => \A h \in EmittedHashes(k) :
                         \E i \in DOMAIN stores[1].active : stores[1].active[i].hash = h
            /\ Positions(hist[k].emitted) \cap Positions(hist[k].skipped) = {}
            /\ Cardinality(Positions(hist[k].skipped)) = Len(hist[k].skipped)

\* A run with dedupe emitted a line in its first input file and skipped an
\* event of the same fingerprint in its second.
C30_Witness ==
    \E k \in DOMAIN hist :
        /\ hist[k].dedupe
        /\ \E a \in DOMAIN hist[k].emitted, b \in DOMAIN hist[k].skipped :
              /\ hist[k].emitted[a].h = hist[k].skipped[b].h
              /\ hist[k].emitted[a].f < hist[k].skipped[b].f
              /\ hist[k].emitted[a].h \notin ActiveHashes(hist[k].pre, hist[k].start)

====
